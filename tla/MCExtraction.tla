----------------------------- MODULE MCExtraction -----------------------------
EXTENDS Extraction

\* Windowed: members that share a batch and its spare, that leave no room beside
\* them, that wait for the next batch, and that can never be admitted.
MCHints == [1 .. N -> {0, 1, 2, 6, 8}]

\* Batches: members that fill a batch, share one, need none of its memory, and
\* one too large for any; every choice of the damaged ones.
MCTasks ==
  UNION {{[family |-> f, sizes |-> s, damaged |-> d, ordered |-> FALSE] :
           f \in {"rar15", "rar50"}, d \in SUBSET {m \in 1 .. 4 : s[m] > 0}} :
         s \in {<<1, 1, 1, 1>>, <<2, 0, 1, 1>>, <<0, 2, 2, 1>>, <<1, 3, 1, 1>>}}

\* One after the other: entries of the three families.
Item(kind, size) ==
  [name |-> "a", kind |-> kind, solid |-> FALSE, link |-> FALSE, old |-> FALSE,
   before |-> FALSE, after |-> FALSE, size |-> size, data |-> size]

Directory == Item("directory", 0)
Stored    == Item("stored", 1)
Packed    == Item("packed", 1)
Solid     == [Packed EXCEPT !.solid = TRUE]
Overlong  == [Stored EXCEPT !.data = 2]
First(e)  == [e EXCEPT !.after = TRUE]
Middle(e) == [e EXCEPT !.before = TRUE, !.after = TRUE]
End(e)    == [e EXCEPT !.before = TRUE, !.size = 2]
Other(e)  == [e EXCEPT !.name = "b"]

Triples(S) == [1 .. 3 -> S]

Archives(f) ==
  CASE f = "rar13" -> Triples({Directory, First(Directory), Stored, Overlong, Packed})
    [] f = "rar15" -> Triples({Item("empty", 0), Packed, Solid, [Packed EXCEPT !.old = TRUE],
                               [Solid EXCEPT !.link = TRUE], First(Packed)})
    [] f = "rar50" -> Triples({Item("redirection", 0), Packed, Solid,
                               [Solid EXCEPT !.size = 2], Item("huge", 1)})

\* Split and whole entries in every order.
Volumes(f) ==
  {v \in Triples({Packed, First(Packed), Middle(Packed), End(Packed), End(Other(Packed)),
                  First(Solid), End(Solid), First(Stored), End(Overlong), Directory}) :
     /\ ~v[1].before
     /\ \E n \in 1 .. 3 : Split(v[n])
     /\ f = "rar13" => \A n \in 1 .. 3 : ~v[n].solid}
  \cup {<<Packed, First(Directory), Packed>> : n \in {f} \cap {"rar15", "rar50"}}
  \cup {<<First(Packed), Item("huge", 1), End(Packed)>> : n \in {f} \cap {"rar50"}}

Families == {"rar13", "rar15", "rar50"}
HeaderSolid(f) == IF f = "rar50" THEN {FALSE} ELSE BOOLEAN

\* A plain call and one with all callbacks, without and with limits.
MCJobs ==
  UNION {
    {[family |-> f, entries |-> e, solid |-> s, volumes |-> FALSE, selector |-> c, handler |-> c,
      links |-> ~c, memberLimit |-> IF c THEN 2 ELSE NoLimit, totalLimit |-> IF c THEN 2 ELSE NoLimit] :
        e \in Archives(f), s \in HeaderSolid(f), c \in BOOLEAN}
    \cup
    {[family |-> f, entries |-> e, solid |-> s, volumes |-> TRUE, selector |-> FALSE, handler |-> FALSE,
      links |-> FALSE, memberLimit |-> 2, totalLimit |-> 3] :
        e \in Volumes(f), s \in HeaderSolid(f)}
    : f \in Families}
=============================================================================
