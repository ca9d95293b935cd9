--------------------------- MODULE MCJobPackager ---------------------------
(* Instances of JobPackager for TLC. *)
EXTENDS JobPackager

CONSTANTS s11, s12, s13, s21, s22, h1, h2, h3, p1

\* Two members with three and two chunks of section SIM, in a vertical
\* wrapper; three jobs of HOR, in a horizontal one of two; POST, which no wrapper
\* takes, after the first chunk of the first member.  The second chunk of the
\* second member also follows that of the first.
TwoMembers == <<h1, h2, h3, p1, s11, s12, s13, s21, s22>>

SectionOf ==
  [j \in Jobs |-> CASE j \in {h1, h2, h3} -> "HOR" [] j = p1 -> "POST" [] OTHER -> "SIM"]
ParentsOf ==
  [j \in Jobs |-> CASE j = s12 -> {s11} [] j = s13 -> {s12}
                    [] j = s22 -> {s21, s12} [] j = p1 -> {s11} [] OTHER -> {}]
PriorityOf ==
  [j \in Jobs |-> CASE Section[j] = "SIM" -> 1 [] Section[j] = "HOR" -> 2 [] OTHER -> 3]
MemberOf ==
  [j \in Jobs |-> CASE j \in {s11, s12, s13} -> <<s11, s12, s13>>
                    [] j \in {s21, s22} -> <<s21, s22>>
                    [] j \in {h1, h2, h3} -> <<h1, h2, h3>> [] OTHER -> <<>>]

\* Three chunks of SIM that do not follow each other.
OneMember == <<s11, s12, s13>>
NoEdges == [j \in Jobs |-> {}]

Sections == {"SIM", "HOR", "POST"}
Two == <<"SIMS", "HORS">>
SectionsOf == [w \in {"SIMS", "HORS"} |-> IF w = "SIMS" THEN {"SIM"} ELSE {"HOR"}]
TypeOf == [w \in {"SIMS", "HORS"} |-> IF w = "SIMS" THEN "vertical" ELSE "horizontal"]

AtLeastTwo == [w \in Range(Wrappers) |-> 2]
AtMost == [w \in Range(Wrappers) |-> IF w = "SIMS" THEN 3 ELSE 2]
MaxBySection == [s \in Sections |-> 3]
One == [j \in Jobs |-> 1]

\* The three chunks of the first member would fill a wrapper, but take too long.
LongLast == [j \in Jobs |-> IF j = s13 THEN 2 ELSE 1]

PlatformTotal == [s \in Sections |-> TotalJobs]
PlatformWaiting == [s \in Sections |-> MaxWaiting]
=============================================================================
