------------------------ MODULE MCRuntimeCoordinator ------------------------
(***************************************************************************)
(* A finite instance of RuntimeCoordinator and ProjectCatalog for TLC, and *)
(* beside it the disks that ProjectScan walks.                             *)
(***************************************************************************)
EXTENDS ProjectSides

Top == <<"w">>
Outside == <<"x">>
Movable == {<<"w", "a">>, <<"w", "a", "a">>}
Tree == {<< >>, Top, Outside, <<"w", "a">>, <<"w", "b">>, <<"w", "a", "a">>, <<"w", "a", "b">>,
         <<"w", "b", "a">>, <<"x", "a">>}
Names == <<"a", "b", "w", "x">>

KindAt(d, top, shallow, deep) ==
  CASE d = Top -> top
    [] d \in DOMAIN shallow -> shallow[d]
    [] d \in DOMAIN deep -> deep[d]
    [] d = <<"x", "a">> -> "project"
    [] OTHER -> "plain"

Layouts == {[d \in Tree |-> KindAt(d, "plain", shallow, deep)] :
              shallow \in [{<<"w", "a">>, <<"w", "b">>} -> {"plain", "project", "skipped", "closed"}],
              deep \in [{<<"w", "a", "a">>, <<"w", "a", "b">>, <<"w", "b", "a">>} -> {"plain", "project"}]}
           \cup {[d \in Tree |-> KindAt(d, "project", << >>, << >>)]}

\* A repository lies around all of them.
SomeDisks == {[kind |-> kind, target |-> Outside,
               repositories |-> {d \in Tree : kind[d] = "project"} \cup {<< >>}] : kind \in Layouts}
=============================================================================
