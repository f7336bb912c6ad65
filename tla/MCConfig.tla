------------------------------ MODULE MCConfig ------------------------------
(* Bodies for POST /config: an address; a text with blanks around it and a  *)
(* comment; a plain key; the same key with a blank before it; a key that is *)
(* too long, with one that has a '=' in it.  Configuration files for the    *)
(* first start: none or an empty one, one with a key twice, and one that    *)
(* has a key that is too long and more keys than the table.                 *)
EXTENDS Config

MCStoredAs == [k \in Keys |-> IF k = "long_key" THEN "long" ELSE k]
MCReadAs ==
  [k \in Keys |-> IF k \in {" api_port", "api_port=x"} THEN "api_port" ELSE k]

MCLine(k, text) == [key |-> k, val |-> Plain(text)]
MCPosted ==
  {<<MCLine(Ping, "10.0.0.1")>>,
   <<[key |-> Ssid, val |-> [text |-> "lan", pad |-> TRUE]], MCLine("#note", "lan")>>,
   <<MCLine("api_port", "lan")>>,
   <<MCLine(" api_port", "10.0.0.1")>>,
   <<MCLine("long_key", "lan"), MCLine("api_port=x", "lan")>>}
MCFirstFiles ==
  {<<>>,
   <<MCLine(Ping, "lan"), MCLine("#note", Empty), MCLine(Ping, "10.0.0.1")>>,
   <<MCLine("long_key", "lan"), MCLine(Ssid, Empty), MCLine(Ping, Empty)>>}
=============================================================================
