--------------------------- MODULE MCDecisionGraph ---------------------------
(* A small instance of DecisionGraph: drafts with every gap a check looks for.*)
EXTENDS DecisionGraph, TLC

Full(action, type) ==
    [action |-> action, type |-> type, priced |-> TRUE, scheduled |-> TRUE, reason |-> TRUE,
     reeval |-> TRUE, trigger |-> TRUE, evidence |-> TRUE, wrong |-> <<>>]

Buys == {[Full("buy", "none") EXCEPT !.priced = p, !.reeval = r, !.evidence = FALSE] :
            p \in BOOLEAN, r \in BOOLEAN} \cup {Full("buy", "none")}
Sells == {[Full("sell", t) EXCEPT !.priced = p, !.scheduled = p, !.evidence = FALSE] :
            t \in {"none", "exit", "short"}, p \in BOOLEAN}
Watches == {[Full("watch", "none") EXCEPT !.reason = r, !.reeval = v, !.trigger = t] :
            r \in BOOLEAN, v \in BOOLEAN, t \in BOOLEAN} \ {[Full("watch", "none") EXCEPT
                !.reason = FALSE, !.reeval = FALSE]}
Wrong == {[Full("watch", "none") EXCEPT !.wrong = w] : w \in {<<"p">>, <<"p", "p">>, <<"q">>}}
         \cup {[Full("sell", "exit") EXCEPT !.wrong = <<"p">>]}
MCDrafts == Buys \cup Sells \cup Watches \cup Wrong \cup {Full("hold", "none")}

MCPlans == {p \in [acts : BOOLEAN, priced : BOOLEAN, sane : BOOLEAN, reasoned : BOOLEAN] :
              IF p.acts THEN p.reasoned ELSE p.priced /\ p.sane}
=============================================================================
