------------------------------- MODULE MCXml -------------------------------
(* The instances of XmlParser that TLC checks. *)
EXTENDS XmlParser

CONSTANTS root, server, x

TwoNames == {root, server}
OneAttr == {x}
UserKinds == {"element", "text"}
FileLeaves == {"text", "declaration"}
============================================================================
