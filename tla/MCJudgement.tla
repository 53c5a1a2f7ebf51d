----------------------------- MODULE MCJudgement ------------------------------
(* Judgement for TLC: two remotes of which one's name begins with the other's, *)
(* and repositories with the usual refspecs, with pull requests, and with two  *)
(* destinations for every branch.                                              *)
EXTENDS Judgement, TLC

Origin == <<"origin">>
Fork == <<"origin", "fork">>

Ref(r, kind, name) == [remote |-> r, ref |-> <<kind, name>>]
Main == Ref(Origin, "heads", "main")
Feat == Ref(Origin, "heads", "feat")

SomeRefs == {Main, Feat, Ref(Origin, "pull", "feat"), Ref(Fork, "heads", "feat")}

Local(r, rest) == <<"remotes">> \o r \o rest
SomeNames == {Local(Origin, <<"main">>), Local(Origin, <<"feat">>), Local(Origin, <<"pr", "feat">>),
              Local(Origin, <<"refs", "pull", "feat">>), Local(Fork, <<"feat">>),
              Local(<<"backup">>, <<"origin", "main">>), Local(<<"backup">>, <<"origin", "feat">>),
              Local(<<"backup">>, <<"origin", "fork", "feat">>)}

Usual(r) == Refspec(<<"heads", "*">>, <<"remotes">> \o r \o <<"*">>)
Backup(r) == Refspec(<<"heads", "*">>, <<"remotes", "backup">> \o r \o <<"*">>)
Pulls(r) == Refspec(<<"pull", "*">>, <<"remotes">> \o r \o <<"pr", "*">>)

Follows(main, feat) == "main" :> main @@ "feat" :> feat
Setting(specs, clones, follows, also, newGit) ==
    [fetch |-> specs, cloned |-> clones, upstream |-> follows, targets |-> also,
     mergeTree |-> newGit]
Limit(c, s, d, new, others, fails) ==
    [commits |-> c, switches |-> s, defaults |-> d, branches |-> new, screens |-> others,
     failing |-> fails]

(* A repository that was not cloned, with a new branch and commands that may   *)
(* fail; one that screens look at too, and one whose default branch moves, with*)
(* a branch that follows its copy; a clone with pull requests; one with two    *)
(* remotes, an old git, and a branch that follows main and is an integration   *)
(* branch on the fork.                                                         *)
SomeRepos == {"plain", "shared", "moving", "clone", "forked"}
Settings ==
    "plain" :> Setting(Origin :> <<Usual(Origin)>>, {}, Follows({}, {}), {}, TRUE) @@
    "shared" :> Setting(Origin :> <<Usual(Origin)>>, {}, Follows({}, {Feat}), {}, TRUE) @@
    "moving" :> Setting(Origin :> <<Usual(Origin)>>, {Origin}, Follows({}, {Feat}), {}, TRUE) @@
    "clone" :> Setting(Origin :> <<Usual(Origin), Pulls(Origin)>>, {Origin},
                       Follows({Main}, {Feat}), {}, TRUE) @@
    "forked" :> Setting(Origin :> <<Usual(Origin), Backup(Origin)>> @@
                          Fork :> <<Usual(Fork), Backup(Fork)>>,
                        {Origin}, Follows({}, {Main}), {<<"origin", "fork", "feat">>}, FALSE)

SomeLimits ==
    "plain" :> Limit(2, 0, 0, {Feat}, {}, TRUE) @@
    "shared" :> Limit(2, 0, 0, {}, {"screen"}, FALSE) @@
    "moving" :> Limit(2, 1, 1, {}, {}, FALSE) @@
    "clone" :> Limit(3, 0, 0, {}, {}, FALSE) @@
    "forked" :> Limit(3, 0, 0, {}, {}, FALSE)

Symmetry == Permutations(Areas)

(* What the theorem of NothingOnlyHere takes of settings holds of these.       *)
ASSUME SettingsToldApart == ToldApart
===============================================================================
