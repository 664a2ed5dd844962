------------------------------ MODULE MCWriter ------------------------------
(***************************************************************************)
(* Instances of RequestLog: HTML and one other type, up to four chunks.    *)
(***************************************************************************)
EXTENDS RequestLog

CONSTANT text

MCOtherType == {text}
=============================================================================
