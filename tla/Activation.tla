------------------------------ MODULE Activation ------------------------------
(***************************************************************************)
(* xdg-activation: a client asks for a token on behalf of one of its       *)
(* surfaces, hands it to another program, and that one spends it to have a *)
(* window of its own focused (protocol/core/xdg_activation.cppm and        *)
(* bindings/rust/src/protocol/activation.rs).  Between the two the surface *)
(* may die, the compositor may change its mind, and other tokens come.     *)
(***************************************************************************)
EXTENDS Naturals, Sequences, FiniteSets, SequencesExt

CONSTANTS
    Drafts,     \* xdg_activation_token_v1 objects, each for one token
    Askers,     \* surfaces of clients
    MaxIssued,  \* how many tokens nobody has spent yet are remembered
    NoAsker     \* "no surface"

ASSUME ActivationAssumption == MaxIssued \in Nat \ {0} /\ NoAsker \notin Askers

VARIABLES
    drafts,     \* token object -> how far it is and the surface it names
    issued,     \* tokens that can be spent, oldest first
    willing,    \* set_grant_tokens()
    extant,     \* the surfaces that exist
    minted,     \* history: what was promised with each token, oldest first
    judged      \* history: token -> what the compositor heard when it was spent
activationVars == <<drafts, issued, willing, extant, minted, judged>>

Promises == [token : Drafts, by : Askers \cup {NoAsker}, granted : BOOLEAN]
Unheard == [times |-> 0, valid |-> 0, by |-> NoAsker]

ActivationTypeOK ==
    /\ drafts \in [Drafts -> [step : {"none", "open", "committed"}, by : Askers \cup {NoAsker}]]
    /\ issued \in Seq(Promises) /\ Len(issued) <= MaxIssued
    /\ willing \in BOOLEAN /\ extant \subseteq Askers
    /\ minted \in Seq(Promises)
    /\ judged \in [Drafts -> [times : 0..2, valid : 0..2, by : Askers \cup {NoAsker}]]

ActivationInit ==
    /\ drafts = [d \in Drafts |-> [step |-> "none", by |-> NoAsker]]
    /\ issued = <<>> /\ minted = <<>>
    /\ willing = TRUE
    /\ extant = Askers
    /\ judged = [d \in Drafts |-> Unheard]

-----------------------------------------------------------------------------
(* The program that asks for a token. *)

GetToken(d) ==
    /\ drafts[d].step = "none"
    /\ drafts' = [drafts EXCEPT ![d].step = "open"]
    /\ UNCHANGED <<issued, willing, extant, minted, judged>>

\* set_surface; the builder forgets a surface that is destroyed.
NameAsker(d, s) ==
    /\ drafts[d].step = "open" /\ s \in extant
    /\ drafts' = [drafts EXCEPT ![d].by = s]
    /\ UNCHANGED <<issued, willing, extant, minted, judged>>

\* Mutant: the newest token gives way.
Remembered_Oldest(tokens) == IF Len(tokens) < MaxIssued THEN tokens ELSE Front(tokens)

\* What is left when one more is to be remembered.
Remembered(tokens) == IF Len(tokens) < MaxIssued THEN tokens ELSE Tail(tokens)

\* commit: the compositor decides, and a random string is handed out.
CommitToken(d) ==
    /\ drafts[d].step = "open"
    /\ LET promise == [token |-> d, by |-> drafts[d].by, granted |-> willing]
       IN /\ issued' = Append(Remembered(issued), promise)
          /\ minted' = Append(minted, promise)
    /\ drafts' = [drafts EXCEPT ![d].step = "committed"]
    /\ UNCHANGED <<willing, extant, judged>>

\* The kernel gives no randomness: the string is empty and matches nothing.
CommitUnminted(d) ==
    /\ drafts[d].step = "open"
    /\ drafts' = [drafts EXCEPT ![d].step = "committed"]
    /\ UNCHANGED <<issued, willing, extant, minted, judged>>

SetGrantTokens(grant) ==
    /\ willing # grant /\ willing' = grant
    /\ UNCHANGED <<drafts, issued, extant, minted, judged>>

-----------------------------------------------------------------------------
(* The program that spends it. *)

\* Mutant: it stays on the list.
Spent_Kept(i) == issued

\* Single use, whether or not the compositor honours it.
Spent(i) == RemoveAt(issued, i)

\* activate, with a token that may be unknown, spent or forgotten by now.
ActivateWindow(d, s) ==
    /\ s \in extant
    /\ drafts[d].step = "committed" /\ judged[d].times < 2
    /\ \/ \E i \in DOMAIN issued :
             /\ issued[i].token = d /\ \A j \in 1..(i - 1) : issued[j].token # d
             /\ judged' = [judged EXCEPT ![d] =
                    [times |-> @.times + 1, by |-> issued[i].by,
                     valid |-> IF issued[i].granted THEN @.valid + 1 ELSE @.valid]]
             /\ issued' = Spent(i)
       \/ /\ \A i \in DOMAIN issued : issued[i].token # d
          /\ judged' = [judged EXCEPT ![d].times = @ + 1]
          /\ UNCHANGED issued
    /\ UNCHANGED <<drafts, willing, extant, minted>>

\* A surface is destroyed: builders and tokens that name it hear of it.
AskerGone(s) ==
    /\ s \in extant /\ extant' = extant \ {s}
    /\ drafts' = [d \in Drafts |->
                    IF drafts[d].by = s THEN [drafts[d] EXCEPT !.by = NoAsker] ELSE drafts[d]]
    /\ issued' = [i \in DOMAIN issued |->
                    IF issued[i].by = s THEN [issued[i] EXCEPT !.by = NoAsker] ELSE issued[i]]
    /\ UNCHANGED <<willing, minted, judged>>

ActivationNext ==
    \/ \E d \in Drafts :
          \/ GetToken(d) \/ CommitToken(d) \/ CommitUnminted(d)
          \/ \E s \in Askers : NameAsker(d, s) \/ ActivateWindow(d, s)
    \/ \E s \in Askers : AskerGone(s)
    \/ \E grant \in BOOLEAN : SetGrantTokens(grant)

ActivationSpec == ActivationInit /\ [][ActivationNext]_activationVars

-----------------------------------------------------------------------------
\* A token is good once at most, and only if it was granted when it was asked
\* for, whatever the compositor thinks of tokens since; who asked for it is
\* reported as it was said then, or not at all.
SpentOnce ==
    \A d \in Drafts :
        /\ judged[d].valid <= 1
        /\ judged[d].valid = 1 => \E n \in DOMAIN minted : minted[n].token = d /\ minted[n].granted
        /\ judged[d].by # NoAsker =>
              \E n \in DOMAIN minted : minted[n].token = d /\ minted[n].by = judged[d].by

\* Only a flood of tokens makes the compositor forget one: fewer than MaxIssued
\* later ones leave it good for the one time it can be spent.
RecentRemembered ==
    \A n \in DOMAIN minted :
        judged[minted[n].token].times = 0 /\ Len(minted) - n < MaxIssued =>
            \E i \in DOMAIN issued :
                issued[i].token = minted[n].token /\ issued[i].granted = minted[n].granted

\* Nothing that waits to be spent points to a surface that is gone.
AskersLive ==
    /\ \A d \in Drafts : drafts[d].by \in extant \cup {NoAsker}
    /\ \A i \in DOMAIN issued : issued[i].by \in extant \cup {NoAsker}

TokensHonest == SpentOnce /\ RecentRemembered /\ AskersLive
=============================================================================
