---------------------------- MODULE MCTimeline ----------------------------
(* Instances of Timeline for TLC. *)
EXTENDS Timeline

Text(id, textContent) ==
  [id |-> id, tag |-> "", textContent |-> textContent, label |-> <<>>, childNodes |-> <<>>]
Element(id, tag, label, children) ==
  [id |-> id, tag |-> tag, textContent |-> <<>>, label |-> label, childNodes |-> children]

\* Two pages whose mirrors both start at id 1, and nodes added to the first: one
\* without text, and one indented by more blanks than collectText looks at.
Button == Element(1, "button", <<"aria">>, <<Text(2, <<" ", "S">>),
                    Element(3, "b", <<>>, <<Text(4, <<" ", " ", "a", " ">>)>>)>>)
Link == Element(1, "a", <<>>, <<Text(2, <<"H">>)>>)
Page(node) == Element(0, Document, <<>>, <<node>>)
Field == Element(5, "input", <<"Name">>, <<>>)
Indented == Element(7, "li", <<"Row">>, <<Text(8, <<" ", " ", " ">>), Text(9, <<"x">>)>>)

Mouse(what, id) == [type |-> INCREMENTAL, source |-> "mouse", mouse |-> what, id |-> id]
Console(level, message) ==
  [type |-> PLUGIN, plugin |-> "console", level |-> level, message |-> message]

MCEventData ==
  {[type |-> FULL_SNAPSHOT, nodes |-> <<Page(Button)>>],
   [type |-> FULL_SNAPSHOT, nodes |-> <<Page(Link)>>],
   [type |-> INCREMENTAL, source |-> "mutation", nodes |-> <<Field, Text(6, <<>>), Indented>>],
   Mouse("Click", 1), Mouse("Click", 7), Mouse("Double click", 5), Mouse("MouseDown", 1), Mouse("Click", 0),
   [type |-> INCREMENTAL, source |-> "input", id |-> 5],
   [type |-> META, href |-> "/a"], [type |-> META, href |-> "/b"],
   Console("assert", <<"boom">>), Console("warn", <<"slow">>), Console("info", <<>>),
   [type |-> PLUGIN, plugin |-> "other"]}
=============================================================================
