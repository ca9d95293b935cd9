---------------------------- MODULE MCGeneration ----------------------------
(* Experiments for Generation: an INI, a SIM by chunk and a POST, as in    *)
(* the examples of docs/source/userguide/defining_workflows.               *)
EXTENDS Generation

Key(s, sg, n, f) == [section |-> s, sign |-> sg, distance |-> n, filter |-> f]
On(s) == Key(s, "", 0, NoFilter)
OnPrevious(s) == Key(s, "-", 1, NoFilter)
OnNext(s) == Key(s, "+", 1, NoFilter)
OnSome(s, f) == Key(s, "", 0, f)

All == Word("all")
Only(values) == [words |-> {}, values |-> values]
ToMembers(x) == [NoTo EXCEPT !.member = x]
ToChunks(x) == [NoTo EXCEPT !.chunk = x]
ToChunk(n) == ToChunks(Only({n}))
Part(of, to) == [of |-> of, to |-> to, inner |-> NoFilter]
Always(to) == [NoFilter EXCEPT !.to = to]
From(level, parts) == [NoFilter EXCEPT !.from = level, !.ranges = parts]

Filters == {
  Always(ToChunks(All)),
  From("chunk", <<Part(Only({1, 2}), ToChunk(1))>>),
  From("chunk", <<Part(All, ToChunk(1))>>),
  From("chunk", <<Part(Only({2}), ToChunk(1)), Part(Only({3}), ToChunk(2))>>),
  From("chunk", <<Part(Only({2}), ToChunks(Word("none")))>>),
  From("member", <<Part(Only({1}), ToMembers(Only({2})))>>),
  From("member", <<[of |-> Only({2}), to |-> ToMembers(Only({1})),
                    inner |-> From("chunk", <<Part(Only({2}), ToChunk(1))>>)]>>) }

Configuration(ini, post, simDeps, postDeps, dates) ==
  [sections |-> <<"ini", "sim", "post">>,
   running |-> [ini |-> ini, sim |-> "chunk", post |-> post],
   deps |-> [ini |-> <<>>, sim |-> simDeps, post |-> postDeps],
   delay |-> [ini |-> -1, sim |-> -1, post |-> -1],
   frequency |-> [ini |-> 1, sim |-> 1, post |-> 1],
   synchronize |-> [ini |-> "", sim |-> "", post |-> ""],
   edgeless |-> {}, dates |-> dates, members |-> 2, chunkIni |-> 1, numChunks |-> 3,
   onlyMembers |-> {}]

Levels4 == {"once", "date", "member", "chunk"}

Natural ==
  {Configuration(x, y, <<On("ini")>> \o s, <<k>> \o p, n) :
     x \in Levels4, y \in Levels4, n \in 1..2, k \in {On("sim"), OnNext("sim")},
     s \in {<<>>, <<OnPrevious("sim")>>, <<OnPrevious("post")>>},
     p \in {<<>>, <<On("ini")>>, <<OnPrevious("post")>>, <<OnPrevious("sim")>>}}

Filtered ==
  {Configuration(x, y, <<On("ini")>> \o s, <<OnSome("sim", f)>> \o p, n) :
     x \in {"once", "member"}, y \in {"once", "member", "chunk"}, n \in 1..2,
     s \in {<<>>, <<OnPrevious("sim")>>}, f \in Filters,
     p \in {<<>>, <<On("ini")>>, <<OnPrevious("post")>>}}

Plain == Configuration("member", "chunk", <<On("ini"), OnPrevious("sim")>>, <<On("sim")>>, 2)
Chained == [Plain EXCEPT !.deps.post = <<On("sim"), OnPrevious("post")>>]

\* FREQUENCY, DELAY, SYNCHRONIZE, DELETE_WHEN_EDGELESS and RUN_ONLY_MEMBERS.
Shaped ==
  UNION {{[w EXCEPT !.synchronize.post = "date"], [w EXCEPT !.synchronize.post = "member"],
          [w EXCEPT !.synchronize.sim = "date"], [w EXCEPT !.synchronize.sim = "member"],
          [w EXCEPT !.frequency.post = 2], [w EXCEPT !.frequency.post = 3],
          [w EXCEPT !.frequency.sim = 2], [w EXCEPT !.frequency.ini = 2],
          [w EXCEPT !.delay.post = 1], [w EXCEPT !.delay.post = 2], [w EXCEPT !.delay.sim = 1],
          [w EXCEPT !.edgeless = {"post"}, !.numChunks = 1],
          [w EXCEPT !.edgeless = {"post"}, !.frequency.sim = 3],
          [w EXCEPT !.onlyMembers = {1}], [w EXCEPT !.onlyMembers = {1}, !.running.ini = "once"],
          [w EXCEPT !.onlyMembers = {1}, !.running.post = "member"],
          [w EXCEPT !.onlyMembers = {1}, !.running.post = "date"],
          [w EXCEPT !.onlyMembers = {1}, !.synchronize.post = "member"]} : w \in {Plain, Chained}}

\* CHUNKINI: with 2 SIM-1 is lost, with 3 create fails.
Later(n) == [Plain EXCEPT !.chunkIni = n]

ExperimentsToGenerate == Natural \cup Filtered \cup Shaped \cup {Later(2), Later(3)}
=============================================================================
