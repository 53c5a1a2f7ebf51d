---------------------------- MODULE MCCreateScreen ----------------------------
(* CreateScreen for TLC: the current branch and a branch of the remote.  The   *)
(* lookup finds the default branch, and perhaps that the current branch has    *)
(* got an upstream, or that HEAD was detached and the remote branch is gone.   *)
EXTENDS CreateScreen

CONSTANTS main, topic, trunk

Candidate(r, k) == [ref |-> r, kind |-> k]

Opening == <<Candidate(main, "current"), Candidate(topic, "remote")>>

Adopted == <<Candidate(main, "current"), Candidate(trunk, "upstream"), Candidate(topic, "remote")>>
Moved == <<Candidate(trunk, "default"), Candidate(main, "local")>>
Lists == {Adopted, Moved}

NamesOfRefs == [r \in {main, topic, trunk} |->
                  IF r = main THEN <<"main", 1>>
                  ELSE IF r = topic THEN <<"topic", 2>> ELSE <<"trunk", 1>>]
TypedNames == {<<"main", 2>>}
QuerySets == {{trunk}}
===============================================================================
