---- MODULE MCConfiguration ----
\* minimal.yml names a folder to load before conf/ and a file to load after it; that
\* file may name a further one.
EXTENDS Configuration

ConfFiles == <<"jobs", "minimal">>

Folders == "folder" :> <<"a", "b">>

AllFiles == {"minimal", "jobs", "folder", "a", "b", "user", "more"}

Only(vals) == Holding(vals, <<>>, <<>>)

X(v) == "X" :> Plain(v)
Y(v) == "Y" :> v

Start(jobs, b, user) ==
  [f \in AllFiles |->
     CASE f = "minimal" -> Holding("M" :> Plain(0) @@ X(0), <<"folder">>, <<"user">>)
       [] f = "jobs"    -> jobs
       [] f = "folder"  -> Only(Nothing)
       [] f = "a"       -> Only(X(1))
       [] f = "b"       -> b
       [] f = "user"    -> user
       [] f = "more"    -> Only(X(5) @@ Y(Now("X")))]

Starts ==
  {Start(jobs, b, user) :
     jobs \in {Only(Y(Plain(2))), Only(Y(Late("X")))},
     b    \in {Only(Y(Plain(9))), Only(X(3))},
     user \in {Absent, Only(X(4)), Only(Y(Now("X"))), Holding(X(4), <<"more">>, <<>>)}}

SomeEdits ==
  {<<"jobs", Only(Y(Late("X")) @@ X(6))>>, <<"jobs", Only(Nothing)>>,
   <<"b", Only(X(7))>>, <<"more", Only(X(5) @@ Y(Plain(7)))>>,
   <<"user", Only(X(8))>>, <<"user", Broken>>}
====
