---- MODULE MCSelection ----
\* Two dates, two members and two chunks.  Workflows: all kinds of sections,
\* for filters and reruns; a short one for a rerun; three smaller ones for groups.
EXTENDS Selection

Two == {1, 2}

Dated(section) == {Job(section, x, 0, 0, 0, 0, FALSE) : x \in Two}
Membered(section) == {Job(section, x, y, 0, 0, 0, FALSE) : x, y \in Two}
Chunked(section) == {Job(section, x, y, z, 0, 0, FALSE) : x, y, z \in Two}
Split(section) == {Job(section, x, y, z, s, 2, FALSE) : x, y, z, s \in Two}
Synchronized2(section) == {Job(section, x, 0, z, 0, 0, TRUE) : x, z \in Two}
Once(section) == {Job(section, 0, 0, 0, 0, 0, FALSE)}

\* By section, date, member, chunk and split, as JobList.generate sorts them.
Rank(order, j) ==
  (CHOOSE i \in DOMAIN order : order[i] = j.section) * 81
    + j.date * 27 + j.member * 9 + j.chunk * 3 + j.split
Sorted(order, jobs) ==
  [i \in 1..Cardinality(jobs) |->
     CHOOSE j \in jobs : Cardinality({k \in jobs : Rank(order, k) < Rank(order, j)}) = i - 1]

-----------------------------------------------------------------------------
FullJobs == Once("LOCAL") \cup Membered("INI") \cup Chunked("SIM") \cup Split("POST")
              \cup Synchronized2("MEAN") \cup Dated("END")

\* LOCAL; INI; SIM: INI SIM-1; POST: SIM; MEAN: POST; END: MEAN
FullParents(j) ==
  {k \in FullJobs :
     \/ k.section = "LOCAL" /\ j.section = "INI"
     \/ k.section = "INI" /\ j.section = "SIM" /\ j.chunk = 1 /\ k.date = j.date /\ k.member = j.member
     \/ k.section = "SIM" /\ j.section = "SIM" /\ k.date = j.date /\ k.member = j.member /\ k.chunk = j.chunk - 1
     \/ k.section = "SIM" /\ j.section = "POST" /\ k.date = j.date /\ k.member = j.member /\ k.chunk = j.chunk
     \/ k.section = "POST" /\ j.section = "MEAN" /\ k.date = j.date /\ k.chunk = j.chunk
     \/ k.section = "MEAN" /\ j.section = "END" /\ k.date = j.date /\ k.chunk = 2}

NoKeys(sections) == [s \in sections |-> {}]
Sections2 == <<"LOCAL", "INI", "SIM", "POST", "MEAN", "END">>

Full(name, order) ==
  [name |-> name, jobs |-> Sorted(order, FullJobs),
   parents |-> [j \in FullJobs |-> FullParents(j)],
   keys |-> [NoKeys(Range(order)) EXCEPT !["SIM"] = {[sign |-> "-", running |-> "chunk", distance |-> 1]}]]

\* One member's INI and SIM, of which a rerun keeps the ends.
ShortJobs == {j \in FullJobs : j.section \in {"INI", "SIM"} /\ j.date = 1 /\ j.member = 1}
Short ==
  [name |-> "short", jobs |-> Sorted(<<"SIM", "INI">>, ShortJobs),
   parents |-> [j \in ShortJobs |-> FullParents(j) \cap ShortJobs],
   keys |-> NoKeys({"INI", "SIM"})]

Grouped(name, jobs, order) ==
  [name |-> name, jobs |-> Sorted(order, jobs), parents |-> [j \in jobs |-> {}], keys |-> NoKeys(Range(order))]

MeanJobs == Chunked("SIM") \cup {Job("MEAN", x, 0, 1, 0, 0, TRUE) : x \in Two}

MCWorkflows ==
  {Full("full", Sections2), Full("back", Reverse(Sections2)), Short,
   Grouped("plain", Dated("INI") \cup Chunked("SIM"), <<"INI", "SIM">>),
   Grouped("split", Split("POST") \cup Membered("INI"), <<"POST", "INI">>),
   Grouped("mean", MeanJobs, <<"SIM", "MEAN">>)}

Waiting(jobs) == {[j \in jobs |-> "WAITING"]}

MCStatuses ==
  [full |-> Waiting(FullJobs), back |-> Waiting(FullJobs), short |-> Waiting(ShortJobs),
   plain |-> [Dated("INI") \cup Chunked("SIM") -> {"COMPLETED", "RUNNING"}],
   split |-> {[j \in Split("POST") \cup Membered("INI") |->
                IF j \in red THEN "FAILED" ELSE IF j.date = 1 THEN "COMPLETED" ELSE "WAITING"]
              : red \in SUBSET {j \in Split("POST") : j.date = 1}},
   mean |-> {[j \in MeanJobs |-> IF j \in red THEN "FAILED" ELSE "RUNNING"]
              : red \in SUBSET {j \in MeanJobs : j.section = "SIM" \/ j.date = 2}}]

-----------------------------------------------------------------------------
Member(member, chunks) == [member |-> member, chunks |-> chunks]
Entry(date, members) == [date |-> date, members |-> members]
Formula(entries, sections) == [wellFormed |-> TRUE, entries |-> entries, sections |-> sections]
Named(section, splits) == [section |-> section, splits |-> splits]

Entries ==
  {<<Entry(1, <<Member(1, <<1>>)>>), Entry(2, <<Member(2, <<1, 2>>)>>)>>,
   <<Entry(1, <<Member(1, <<1, 0>>), Member(2, <<2>>)>>)>>,
   <<Entry(2, <<Member(0, <<0>>)>>), Entry(1, <<Member(1, <<2>>)>>)>>,
   <<Entry(0, <<Member(2, <<2>>)>>)>>,
   <<Entry(1, <<Member(1, <<>>)>>)>>}

FormulaSections ==
  {<<>>, <<Named("ANY", {})>>, <<Named("SIM", {}), Named("POST", {2})>>,
   <<Named("POST", {0}), Named("MEAN", {1})>>, <<Named("ANY", {1}), Named("LOCAL", {})>>}

Formulas == {NoFormula} \cup {Formula(x, y) : x \in Entries, y \in FormulaSections}

Selects ==
  {[what |-> "select", sections |-> s, statuses |-> t, names |-> n, formula |-> x] :
     s \in {{}, {"SIM"}, {"LOCAL", "END"}, {"Any"}, {"DA"}}, t \in {{}, {"WAITING"}, {"FAILED"}},
     n \in {{}, {Job("INI", 1, 2, 0, 0, 0, FALSE)}, {AnyName}}, x \in Formulas}
  \cup {[what |-> "select", sections |-> {}, statuses |-> {}, names |-> {},
         formula |-> [Formula(<<>>, <<>>) EXCEPT !.wellFormed = FALSE]]}

Part(letter, values) == [letter |-> letter, values |-> values, hasC |-> FALSE]
WithC(values) == [letter |-> "M", values |-> values, hasC |-> TRUE]
Filter(section, dates, parts) == [section |-> section, dates |-> dates, parts |-> parts]

PartsOfFilter ==
  {<<Part("C", {1})>>, <<Part("C", {1, 2})>>, <<Part("M", {2})>>, <<Part("C", {1}), Part("M", {1})>>,
   <<Part("M", {2}), Part("C", {1, 2})>>, <<WithC({2})>>, <<WithC({1}), Part("C", {1})>>}

\* One filter, without a part too, and two that say the same kinds of parts or not.
Filters ==
  {<<Filter(s, x, p)>> : s \in {"SIM", "POST"}, x \in {{1}, {1, 2}}, p \in PartsOfFilter \cup {<<>>}}
  \cup {<<Filter("SIM", {1}, p), Filter("POST", {1, 2}, q)>> : p, q \in PartsOfFilter}
  \cup {<<Filter("SIM", {1}, <<Part("C", {1})>>), Filter("POST", {1}, <<Part("M", {2})>>),
          Filter("SIM", {2}, p)>> : p \in PartsOfFilter}
  \cup {<<>>}

Reruns ==
  {[what |-> "rerun", names |-> n, sections |-> s, filters |-> x] :
     n \in {{}, {Job("INI", 1, 1, 0, 0, 0, FALSE)}}, s \in {{}, {"LOCAL"}, {"MEAN", "END"}}, x \in Filters}

Groups(bys, expanded, expand) ==
  {[what |-> "group", by |-> b, expanded |-> e, expand |-> x] : b \in bys, e \in expanded, x \in expand}

Expands ==
  {NoExpand,
   [depth |-> 2, entries |-> <<Entry(1, <<>>)>>],
   [depth |-> 3, entries |-> <<Entry(1, <<Member(2, <<>>)>>), Entry(2, <<Member(1, <<>>)>>)>>],
   [depth |-> 4, entries |-> <<Entry(1, <<Member(1, <<<<1, 1>>>>)>>)>>],
   [depth |-> 4, entries |-> <<Entry(2, <<Member(1, <<<<1, 2>>>>)>>), Entry(1, <<Member(2, <<<<2, 2>>>>)>>)>>]}

Running == [LOCAL |-> "once", INI |-> "member", SIM |-> "chunk", POST |-> "chunk",
            MEAN |-> "chunk", END |-> "date"]

Wraps == {[what |-> "wrap", running |-> Restrict(Running, s)] : s \in SUBSET DOMAIN Running}

MCRequests ==
  [full |-> Selects \cup Reruns \cup Wraps, back |-> Reruns,
   short |-> {[what |-> "rerun", names |-> {Job("INI", 1, 1, 0, 0, 0, FALSE)}, sections |-> {},
               filters |-> <<Filter("SIM", {1}, <<Part("C", {2})>>)>>]},
   plain |-> Groups({"automatic", "date"}, {{}, {"RUNNING"}}, {NoExpand})
               \cup Groups({"date", "member", "chunk"}, {{}}, Expands),
   split |-> Groups({"automatic", "split"}, {{}, {"FAILED"}}, {NoExpand}),
   mean |-> Groups({"date", "member", "chunk"}, {{}, {"FAILED"}}, {NoExpand})]
====
