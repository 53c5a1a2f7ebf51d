------------------------------- MODULE Refspecs -------------------------------
(* Names of refs and the refspecs that pair them (gitrepo/git.go), and what    *)
(* judge.go makes of them: the refs that are the branch itself, the branches   *)
(* that are integration branches, and the refs that are no branches.           *)
(*                                                                             *)
(* A ref is the sequence of its path components after "refs/": the remote side *)
(* of branch feat is <<"heads", "feat">>, its tracking ref                     *)
(* <<"remotes", "origin", "feat">>.  A remote is the sequence of components of *)
(* its name ("team/upstream" has two).  A side of a refspec may hold one Star. *)
(* What may be absent is a set with at most one element.                       *)
EXTENDS Integers, Sequences, SequencesExt, FiniteSets, FiniteSetsExt

Star == "*"
HasStar(side) == \E i \in DOMAIN side : side[i] = Star

(* refspec: the remote side and the local one; a forcing "+" is stripped.      *)
Refspec(source, destination) == [source |-> source, destination |-> destination]

BeforeStar(side) == SubSeq(side, 1, SelectInSeq(side, LAMBDA part : part = Star) - 1)
AfterStar(side) ==
    SubSeq(side, SelectInSeq(side, LAMBDA part : part = Star) + 1, Len(side))

Heads(branch) == <<"heads", branch>>
IsBranch(ref) == ref # <<>> /\ ref[1] = "heads"

(* matchRefspecSide: the part at the star; without a star only equality pairs. *)
MatchSide(side, ref) ==
    IF HasStar(side)
    THEN LET before == BeforeStar(side)
             after == AfterStar(side)
         IN IF /\ Len(ref) >= Len(before) + Len(after)
               /\ IsPrefix(before, ref) /\ IsSuffix(after, ref)
            THEN {SubSeq(ref, Len(before) + 1, Len(ref) - Len(after))}
            ELSE {}
    ELSE IF side = ref THEN {<<>>} ELSE {}

(* substituteRefspec: a star on one side only is no pair.                      *)
Substitute(pattern, template, ref) ==
    IF ~HasStar(pattern) THEN {template : m \in MatchSide(pattern, ref)}
    ELSE IF ~HasStar(template) THEN {}
    ELSE {BeforeStar(template) \o m \o AfterStar(template) : m \in MatchSide(pattern, ref)}

ToLocal(spec, ref) == Substitute(spec.source, spec.destination, ref)
ToRemote(spec, ref) == Substitute(spec.destination, spec.source, ref)

(* The first of the results, one per refspec, that is a pair.                  *)
FirstPair(results) ==
    LET paired == {i \in DOMAIN results : results[i] # {}}
    IN IF paired = {} THEN {} ELSE results[Min(paired)]

ByConvention(remote, ref) ==
    <<"remotes">> \o remote \o (IF IsBranch(ref) THEN Tail(ref) ELSE <<"refs">> \o ref)

(* TrackingRefsFor: every local copy of a remote ref.                          *)
TrackingRefsFor(specs, remote, ref) ==
    LET copies == UNION {ToLocal(specs[i], ref) : i \in DOMAIN specs}
    IN IF copies = {} THEN {ByConvention(remote, ref)} ELSE copies

(* TrackingRefFor: the copy that git itself takes for the tracking ref.        *)
TrackingRefFor(specs, remote, ref) ==
    LET found == FirstPair([i \in DOMAIN specs |-> ToLocal(specs[i], ref)])
    IN IF found = {} THEN ByConvention(remote, ref) ELSE CHOOSE copy \in found : TRUE

(* RemoteRefFor: where a tracking ref comes from, to fetch it again.           *)
RemoteRefFor(specs, remote, tracking) ==
    LET found == FirstPair([i \in DOMAIN specs |-> ToRemote(specs[i], tracking)])
        own == <<"remotes">> \o remote
    IN IF found # {} THEN found
       ELSE IF IsPrefix(own, tracking) /\ Len(tracking) > Len(own)
       THEN {<<"heads">> \o SubSeq(tracking, Len(own) + 1, Len(tracking))}
       ELSE {}

(* isNonBranchTrackingRef: one such refspec is enough, whatever the others say. *)
BringsNonBranch(spec, copy) ==
    \E source \in ToRemote(spec, copy) : ~IsBranch(source)

(* TargetFromShortRef: a remote's name may hold a slash, so the longest        *)
(* registered name that begins the short name is the remote.                   *)
TargetFromShortRef(remotes, short) ==
    LET fits == {r \in remotes : IsPrefix(r, short) /\ Len(short) > Len(r)}
        longest == {r \in fits : \A other \in fits : Len(other) <= Len(r)}
    IN {[remote |-> r, ref |-> <<"heads">> \o SubSeq(short, Len(r) + 1, Len(short))] :
          r \in longest}

(* RemoteFor: the upstream's remote, the only one, or origin.                  *)
RemoteFor(upstream, remotes) ==
    IF upstream # {} THEN {up.remote : up \in upstream}
    ELSE IF Cardinality(remotes) = 1 THEN remotes
    ELSE remotes \cap {<<"origin">>}
===============================================================================
