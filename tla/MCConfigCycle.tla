---------------------------- MODULE MCConfigCycle ----------------------------
(* ConfigCycle for TLC.  Three locations are enough for a value to be        *)
(* inherited through one that is silent, and stopped by one that is not; two *)
(* configurations, for the second to be read over what the first left.       *)
EXTENDS ConfigCycle

CONSTANTS w1, alice, ghost, bobs

Line(f, word) == [set |-> f, to |-> word]
One(f, word)  == <<Line(f, word)>>
Chains(texts) == [1 .. Depth -> texts]

\* What is sold, and whether once.
Plain  == One("enable", "on")
Access ==
  {<< >>, Plain, One("enable", "off"), One("realm", "realm"),
   One("indefinite", "on"), One("indefinite", "off"), Plain \o One("enable", "off")}

\* Who is paid.
Payee ==
  {<< >>, Plain, Plain \o One("ref", alice), One("ref", alice), One("ref", ghost),
   One("addr", bobs), Plain \o One("addr", bobs)}

\* Everything else at once, and what each handler does with a word it does not know.
Switches  == <<"dry_run", "auto_detect", "payment_html", "log_format">>
All(word) == [i \in 1 .. 4 |-> Line(Switches[i], word)]
Rest ==
  {<< >>, All("on") \o One("amount", 7) \o One("timeout", 300) \o One("methods", {"HEAD"}),
   All("off") \o One("limit", 5) \o One("limit", 9) \o One("timeout", 0) \o One("amount", 0),
   One("auto_detect", Garbled) \o One("amount", Garbled) \o One("timeout", Garbled),
   Plain \o One("enable", Garbled), One("hidden", TRUE)}
Wrong ==
  {<<Plain, text, << >>>> :
     text \in {One(f, Garbled) : f \in {"realm", "indefinite", "dry_run", "payment_html",
                                       "log_format", "limit", "ref", "addr"}}
       \cup {One("ref", alice) \o One(f, to) : <<f, to>> \in {<<"ref", alice>>, <<"addr", bobs>>}}}

MCFiles   == Chains(Access) \cup Chains(Payee) \cup Chains(Rest) \cup Wrong
MCWorkers == {w1}
MCTenants == {alice}
==============================================================================
