-------------------------- MODULE MCPureAlgorithms --------------------------
(* Entries with every form of a date, and queries around 1401 to 1500.     *)
EXTENDS PureAlgorithms

NoText == [form |-> "other", numbers |-> <<>>]

MCEntry(label, lang, date, origin) ==
  [label |-> label, lang |-> lang, date |-> date, origin |-> origin]

Texts ==
  {NoText} \cup
  {[form |-> f.form, numbers |-> f.numbers] : f \in
     [form : {"year"}, numbers : {<<0>>, <<1400>>, <<1500>>}]
     \cup [form : {"range"}, numbers : {<<1390, 1401>>, <<1510, 1490>>, <<1450, 60>>}]
     \cup [form : {"circa"}, numbers : {<<1380>>, <<1521>>}]
     \cup [form : {"century"}, numbers : {<<0>>, <<14>>, <<15>>}]
     \cup [form : {"roman"}, numbers : {<<10, 5>>, <<10, 1, 5>>, <<1, 1, 1>>}]}

MCEntries ==
  {MCEntry("langue", lang, NoText, {}) : lang \in {"fr", "de", Unknown}}
  \cup {MCEntry(label, Unknown, text, {}) : label \in {"date", "century"}, text \in Texts}
  \cup {MCEntry("origin", Unknown, NoText, places) : places \in SUBSET {"Paris", "Roma"}}
  \cup {MCEntry("shelfmark", "de", [form |-> "year", numbers |-> <<900>>], {"Roma"})}

MCQueries ==
  [langs : {{}, {"fr"}}, from : {0, 1400, 1401}, to : {0, 1400, 1500},
   places : {{}, {"Paris"}}]
=============================================================================
