--------------------------- MODULE MCGqlValidator ---------------------------
(***************************************************************************)
(* Requests for GqlValidator: a read and a write, with one part at a time  *)
(* taken to its limits and past them, and with up to Radix + 1 fields.     *)
(***************************************************************************)
EXTENDS GqlValidator

Read == <<1>>
Write == <<2>>
MCReadOps == {Read}
MCWriteOps == {Write}
Alice == <<1, 2>>
Bob == <<2>>
MCUsers == {Alice, Bob}

\* Empty, short, with a space, with a control character, long, wrapping.
MCTexts == {<<>>, <<1>>, <<1, 2>>, <<3, 1>>, <<0>>, <<1, 1, 1>>, <<1, 1, 1, 1>>}
Keys == <<<<1>>, <<2>>, <<1, 2>>, <<2, 1>>, <<1, 1>>>>

Base(op) ==
  [operation |-> op, namespace |-> Alice, entryID |-> <<1>>, category |-> <<>>,
   title |-> <<3>>, fields |-> <<>>, limit |-> 1, offset |-> 0,
   credentials |-> <<1>>]

Variants(q) ==
  {[q EXCEPT !.operation = t] : t \in MCTexts}
    \cup {[q EXCEPT !.namespace = t] : t \in MCTexts \cup {Bob}}
    \cup {[q EXCEPT !.entryID = t] : t \in MCTexts}
    \cup {[q EXCEPT !.category = t] : t \in MCTexts}
    \cup {[q EXCEPT !.title = t] : t \in MCTexts}
    \cup {[q EXCEPT !.credentials = t, !.limit = l] : t \in MCTexts, l \in 0 .. 3}
    \cup {[q EXCEPT !.fields = [k \in {s, t} |-> v]] : s, t, v \in MCTexts}
    \cup {[q EXCEPT !.fields = [k \in {Keys[i] : i \in 1 .. n} |-> v]] :
            n \in 1 .. 5, v \in {<<>>, <<1>>, <<0>>}}

MCQueries == Variants(Base(Read)) \cup Variants(Base(Write))

=============================================================================
