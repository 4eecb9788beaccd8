------------------------------ MODULE Workspaces ------------------------------
(***************************************************************************)
(* The workspaces of bindings/rust/src/desktop.rs (WorkspaceManager): the  *)
(* compositor declares groups and workspaces, every pager that is bound is *)
(* sent each change as it is made and shows them when it is told they are  *)
(* done, and a pager's own requests wait for its commit.  A group may name *)
(* an output, to the pagers that have bound it and to those that will.     *)
(***************************************************************************)
EXTENDS Naturals, Sequences, FiniteSets, SequencesExt

CONSTANTS
    Spaces,     \* workspaces
    Groups,     \* workspace groups
    Pagers,     \* clients
    MaxAsked,   \* bound: requests of pagers waiting anywhere
    NoGroup     \* "no group"

ASSUME PagerAssumption == MaxAsked \in Nat /\ NoGroup \notin Groups

VARIABLES
    spaces,     \* workspace -> is it there, its group, its state bits
    groups,     \* group -> is it there, has it the output, callbacks left on that
    pager,      \* client -> has it bound the manager, has it bound the output
    sent,       \* client -> what it was sent
    shown,      \* client -> what of that was done
    queued,     \* client -> requests before its commit
    requests,   \* requests committed, waiting for the compositor
    dirty       \* history: something changed since the compositor's commit
spaceVars == <<spaces, groups, pager, sent, shown, queued, requests, dirty>>

Bits == SUBSET {"active", "urgent"}
SpaceView == [is : {"none", "live"}, group : Groups \cup {NoGroup}, bits : Bits]
View == [space : [Spaces -> SpaceView], group : [Groups -> {"none", "live"}],
         entered : [Groups -> BOOLEAN]]
Unseen == [is |-> "none", group |-> NoGroup, bits |-> {}]
Blank == [space |-> [s \in Spaces |-> Unseen], group |-> [g \in Groups |-> "none"],
          entered |-> [g \in Groups |-> FALSE]]
Presence == {"never", "here", "removed"}

SpacesTypeOK ==
    /\ spaces \in [Spaces -> [is : Presence, group : Groups \cup {NoGroup}, bits : Bits]]
    /\ groups \in [Groups -> [is : Presence, output : BOOLEAN, callback : BOOLEAN]]
    /\ pager \in [Pagers -> [bound : BOOLEAN, output : BOOLEAN]]
    /\ sent \in [Pagers -> View] /\ shown \in [Pagers -> View]
    /\ queued \in [Pagers -> Seq(Spaces)] /\ requests \in Seq(Spaces)
    /\ dirty \in BOOLEAN

SpacesInit ==
    /\ spaces = [s \in Spaces |-> [is |-> "never", group |-> NoGroup, bits |-> {}]]
    /\ groups = [g \in Groups |-> [is |-> "never", output |-> FALSE, callback |-> FALSE]]
    /\ pager = [p \in Pagers |-> [bound |-> FALSE, output |-> FALSE]]
    /\ sent = [p \in Pagers |-> Blank] /\ shown = [p \in Pagers |-> Blank]
    /\ queued = [p \in Pagers |-> <<>>] /\ requests = <<>>
    /\ dirty = FALSE

Here(s) == spaces[s].is = "here"
GroupHere(g) == groups[g].is = "here"

-----------------------------------------------------------------------------
(* What the pagers are sent: each change to all that are bound, at once. *)

Tell(say(_)) == sent' = [p \in Pagers |-> IF pager[p].bound THEN say(sent[p]) ELSE sent[p]]

\* done: what was sent so far counts.
Done(ps) == shown' = [p \in Pagers |-> IF p \in ps THEN sent'[p] ELSE shown[p]]

\* The compositor changes something: told now, done at its commit.
Changed ==
    /\ dirty' = TRUE
    /\ UNCHANGED <<pager, shown, queued>>

CreateGroup(g) ==
    /\ groups[g].is = "never"
    /\ groups' = [groups EXCEPT ![g].is = "here"]
    /\ Tell(LAMBDA v : [v EXCEPT !.group[g] = "live"])
    /\ Changed /\ UNCHANGED <<spaces, requests>>

\* The compositor removes its workspaces first.
RemoveGroup(g) ==
    /\ GroupHere(g) /\ \A s \in Spaces : Here(s) => spaces[s].group # g
    /\ groups' = [groups EXCEPT ![g].is = "removed", ![g].output = FALSE]
    /\ Tell(LAMBDA v : [v EXCEPT !.group[g] = "none", !.entered[g] = FALSE])
    /\ Changed /\ UNCHANGED <<spaces, requests>>

AddWorkspace(s, g) ==
    /\ spaces[s].is = "never" /\ GroupHere(g)
    /\ spaces' = [spaces EXCEPT ![s] = [is |-> "here", group |-> g, bits |-> {}]]
    /\ Tell(LAMBDA v : [v EXCEPT !.space[s] =
                [is |-> "live", bits |-> {},
                 group |-> IF v.group[g] = "live" THEN g ELSE NoGroup]])
    /\ Changed /\ UNCHANGED <<groups, requests>>

RemoveWorkspace(s) ==
    /\ Here(s)
    /\ spaces' = [spaces EXCEPT ![s] = [is |-> "removed", group |-> NoGroup, bits |-> {}]]
    /\ Tell(LAMBDA v : [v EXCEPT !.space[s] = Unseen])
    /\ Changed /\ UNCHANGED <<groups, requests>>

\* New bits for some workspaces, sent for those whose bits are really new.
SetBits(bits) ==
    LET new == {s \in Spaces : Here(s) /\ spaces[s].bits # bits[s]} IN
    /\ spaces' = [s \in Spaces |-> IF s \in new THEN [spaces[s] EXCEPT !.bits = bits[s]]
                                   ELSE spaces[s]]
    /\ Tell(LAMBDA v : [v EXCEPT !.space = [s \in Spaces |->
                IF s \in new THEN [v.space[s] EXCEPT !.bits = bits[s]] ELSE v.space[s]]])
    /\ Changed /\ UNCHANGED groups

SetState(s, bits) ==
    /\ Here(s) /\ spaces[s].bits # bits
    /\ SetBits([t \in Spaces |-> IF t = s THEN bits ELSE spaces[t].bits])
    /\ UNCHANGED requests

\* The only active one of its group; the other bits stay.
OnlyActive(s) ==
    [t \in Spaces |-> IF spaces[t].group # spaces[s].group THEN spaces[t].bits
                      ELSE IF t = s THEN spaces[t].bits \cup {"active"}
                      ELSE spaces[t].bits \ {"active"}]

ActivateWorkspace(s) == Here(s) /\ SetBits(OnlyActive(s)) /\ UNCHANGED requests

\* commit(): everything since the last one, to everybody.
CommitWorkspaces ==
    /\ dirty
    /\ dirty' = FALSE
    /\ UNCHANGED sent
    /\ Done({p \in Pagers : pager[p].bound})
    /\ UNCHANGED <<spaces, groups, pager, queued, requests>>

-----------------------------------------------------------------------------
(* Outputs, and the pagers that bind them. *)

\* An output that a client has bound enters the group, and the manager says
\* done to that client right away.
Entered(ps, gs) ==
    LET told == {p \in ps : pager[p].bound /\ pager'[p].output} IN
    /\ sent' = [p \in Pagers |-> IF p \in told
           THEN [sent[p] EXCEPT !.entered = [g \in Groups |->
                    @[g] \/ (g \in gs /\ sent[p].group[g] = "live")]]
           ELSE sent[p]]
    /\ Done(IF gs = {} THEN {} ELSE told)

\* A callback stays on the output for those that bind it later.
GroupAddOutput(g) ==
    /\ GroupHere(g) /\ ~groups[g].output
    /\ groups' = [groups EXCEPT ![g].output = TRUE, ![g].callback = TRUE]
    /\ dirty' = TRUE
    /\ UNCHANGED <<pager, spaces, queued, requests>>
    /\ Entered(Pagers, {g})

\* The callback stays, and finds the output no longer in the group.
GroupRemoveOutput(g) ==
    /\ GroupHere(g) /\ groups[g].output
    /\ groups' = [groups EXCEPT ![g].output = FALSE]
    /\ Tell(LAMBDA v : [v EXCEPT !.entered[g] = FALSE])
    /\ Changed /\ UNCHANGED <<spaces, requests>>

BindOutput(p) ==
    /\ ~pager[p].output
    /\ pager' = [pager EXCEPT ![p].output = TRUE]
    /\ Entered({p}, {g \in Groups : groups[g].callback /\ GroupHere(g) /\ groups[g].output})
    /\ UNCHANGED <<spaces, groups, queued, requests, dirty>>

-----------------------------------------------------------------------------
(* The pagers. *)

Present(p) ==
    [space |-> [s \in Spaces |-> IF Here(s) THEN [spaces[s] EXCEPT !.is = "live"] ELSE Unseen],
     group |-> [g \in Groups |-> IF GroupHere(g) THEN "live" ELSE "none"],
     entered |-> [g \in Groups |-> GroupHere(g) /\ groups[g].output /\ pager[p].output]]

\* Mutant: a late pager is not sent the outputs of the groups.
Bound_NoOutputs(p) == [Present(p) EXCEPT !.entered = [g \in Groups |-> FALSE]]

\* A pager that binds late is sent everything there is, and done.
Bound(p) == Present(p)

PagerBinds(p) ==
    /\ ~pager[p].bound
    /\ pager' = [pager EXCEPT ![p].bound = TRUE]
    /\ sent' = [sent EXCEPT ![p] = Bound(p)]
    /\ Done({p})
    /\ UNCHANGED <<spaces, groups, queued, requests, dirty>>

\* stop, or the client goes: its handles and what it had queued go too.
PagerStops(p) ==
    /\ pager[p].bound
    /\ pager' = [pager EXCEPT ![p].bound = FALSE]
    /\ sent' = [sent EXCEPT ![p] = Blank] /\ shown' = [shown EXCEPT ![p] = Blank]
    /\ queued' = [queued EXCEPT ![p] = <<>>]
    /\ UNCHANGED <<spaces, groups, requests, dirty>>

\* activate, for a workspace it shows, which may be gone by now.
Ask(p, s) ==
    /\ pager[p].bound /\ shown[p].space[s].is = "live"
    /\ Len(queued[p]) + Len(requests) < MaxAsked
    /\ queued' = [queued EXCEPT ![p] = Append(@, s)]
    /\ UNCHANGED <<spaces, groups, pager, sent, shown, requests, dirty>>

\* The manager's commit lets its requests out, together and in order.
PagerCommit(p) ==
    /\ queued[p] # <<>>
    /\ requests' = requests \o queued[p]
    /\ queued' = [queued EXCEPT ![p] = <<>>]
    /\ UNCHANGED <<spaces, groups, pager, sent, shown, dirty>>

\* The compositor handles the event: activates, or finds the workspace gone.
ServePager ==
    /\ requests # <<>>
    /\ requests' = Tail(requests)
    /\ IF Here(Head(requests)) THEN SetBits(OnlyActive(Head(requests)))
       ELSE UNCHANGED <<spaces, groups, pager, sent, shown, queued, dirty>>

SpacesNext ==
    \/ \E g \in Groups : \/ CreateGroup(g) \/ RemoveGroup(g)
                         \/ GroupAddOutput(g) \/ GroupRemoveOutput(g)
    \/ \E s \in Spaces, g \in Groups : AddWorkspace(s, g)
    \/ \E s \in Spaces : RemoveWorkspace(s) \/ ActivateWorkspace(s) \/ \E b \in Bits : SetState(s, b)
    \/ CommitWorkspaces \/ ServePager
    \/ \E p \in Pagers : BindOutput(p) \/ PagerBinds(p) \/ PagerStops(p) \/ PagerCommit(p)
    \/ \E p \in Pagers, s \in Spaces : Ask(p, s)

SpacesSpec == SpacesInit /\ [][SpacesNext]_spaceVars

-----------------------------------------------------------------------------
(* The properties. *)

\* Whatever was declared, changed and taken back in whatever order, and
\* whenever a pager bound the manager and the output: once the compositor has
\* committed, every pager shows what there is.
PagersAgree == ~dirty => \A p \in Pagers : pager[p].bound => shown[p] = Present(p)

\* Does not hold: an output entering a group is done at once, and with it
\* everything else the compositor had changed and not committed.
UpdatesTogether ==
    [][\A p \in Pagers :
          pager[p].bound /\ pager'[p].bound /\ shown'[p].space # shown[p].space => ~dirty']_spaceVars
=============================================================================
