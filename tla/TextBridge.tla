------------------------------ MODULE TextBridge ------------------------------
(***************************************************************************)
(* Text input and the input method (text_input.cppm, protocol/text_input.  *)
(* rs; input_method.cppm and InputMethodManager of desktop.rs).  A text    *)
(* field has the focus of the keyboard, is enabled by a commit, and each   *)
(* commit of it is copied to the input method and counted; the input       *)
(* method answers later, with the count it had seen.  Its strings are      *)
(* handed on at once, to be applied by the "done" its commit may cause.    *)
(* Left out: candidate windows, the keyboard grab, a second field of a     *)
(* client ("a client has one per seat"), a refused input method, and       *)
(* fields that are older than the input method's manager.                  *)
(***************************************************************************)
EXTENDS Naturals

CONSTANTS
    Fields,     \* text inputs, one of each client
    MaxDone,    \* bound: states copied to the input method
    MaxCommit,  \* bound: commits of a field
    NoField     \* "none"

ASSUME TextAssumption == MaxDone \in Nat \ {0} /\ MaxCommit \in Nat \ {0} /\ NoField \notin Fields

VARIABLES
    fields,     \* TextInputImpl, and the strings its client holds for the next done
    typing,     \* TextInputManager: the field of the client with the keyboard
    im          \* InputMethodImpl, what it was told last, what it has seen, and the
                \* counts for which a commit of it was ignored (history)
textVars == <<fields, typing, im>>

Field == [alive : BOOLEAN, focus : BOOLEAN, enabled : BOOLEAN, wish : {"none", "enable", "disable"},
          commits : 0..MaxCommit, staged : SUBSET (0..MaxDone)]
NewField == [alive |-> TRUE, focus |-> FALSE, enabled |-> FALSE, wish |-> "none",
             commits |-> 0, staged |-> {}]

NoMethod == [alive |-> FALSE, active |-> FALSE, done |-> 0, seen |-> 0, of |-> NoField, at |-> 0,
             ignored |-> {}]

TextTypeOK ==
    /\ fields \in [Fields -> Field]
    /\ typing \in Fields \cup {NoField}
    /\ im \in [alive : BOOLEAN, active : BOOLEAN, done : 0..MaxDone, seen : 0..MaxDone,
               of : Fields \cup {NoField}, at : 0..MaxCommit, ignored : SUBSET (0..MaxDone)]

TextInit ==
    /\ fields = [f \in Fields |-> [NewField EXCEPT !.alive = FALSE]]
    /\ typing = NoField /\ im = NoMethod

-----------------------------------------------------------------------------
(* The bridge.  What it does to the input method m, given the fields. *)

\* TextInputManager::focused().
Target(fs) == {f \in Fields : fs[f].alive /\ fs[f].focus /\ fs[f].enabled}

ImDeactivated(m) ==
    IF m.alive /\ m.active THEN [m EXCEPT !.active = FALSE, !.done = @ + 1] ELSE m

\* push_state(true): the state of the focused field, and a done.
Pushed(m, fs) ==
    IF ~m.alive THEN m
    ELSE IF Target(fs) = {} THEN ImDeactivated(m)
    ELSE LET f == CHOOSE t \in Target(fs) : TRUE
         IN [m EXCEPT !.active = TRUE, !.done = @ + 1, !.of = f, !.at = fs[f].commits]

\* leave(): the field is disabled, which the input method hears of.
FieldLeft(fs, f) == [fs EXCEPT ![f] = [@ EXCEPT !.focus = FALSE, !.enabled = FALSE, !.wish = "none",
                                           !.staged = {}]]

\* The rest is bounded by the count of dones.
TextBecomes(m) == m.done <= MaxDone /\ im' = m

-----------------------------------------------------------------------------
(* Fields. *)

\* get_text_input: one that comes to a client with the keyboard is told so.
GetTextInput(f) ==
    /\ ~fields[f].alive
    /\ fields' = [fields EXCEPT ![f] = [NewField EXCEPT !.focus = typing = f]]
    /\ UNCHANGED <<typing, im>>

\* It goes; nothing but the "destroy" of its own signal says so.
DestroyTextInput(f) ==
    /\ fields[f].alive
    /\ fields' = [fields EXCEPT ![f] = [NewField EXCEPT !.alive = FALSE]]
    /\ UNCHANGED <<typing, im>>

\* enable and disable wait for the commit; without the focus they are ignored.
Wish(f, wish) ==
    /\ fields[f].alive /\ fields[f].focus
    /\ fields' = [fields EXCEPT ![f].wish = wish]
    /\ UNCHANGED <<typing, im>>

\* Mutant: it hears of enabling only.
Committed_Once(m, was, fs, f) ==
    CASE ~was /\ fs[f].enabled -> Pushed(m, fs)
      [] was /\ ~fs[f].enabled -> ImDeactivated(m)
      [] OTHER -> m

\* What the bridge hears of a commit: that the field was enabled or disabled,
\* and that there was a commit.
Committed(m, was, fs, f) ==
    LET first == CASE ~was /\ fs[f].enabled -> Pushed(m, fs)
                   [] was /\ ~fs[f].enabled -> ImDeactivated(m)
                   [] OTHER -> m
    IN Pushed(first, fs)

CommitText(f) ==
    /\ fields[f].alive /\ fields[f].focus /\ fields[f].commits < MaxCommit
    /\ fields' = [fields EXCEPT
                     ![f].commits = @ + 1,
                     ![f].wish = "none",
                     ![f].enabled = CASE fields[f].wish = "enable" -> TRUE
                                      [] fields[f].wish = "disable" -> FALSE
                                      [] OTHER -> @]
    /\ TextBecomes(Committed(im, fields[f].enabled, fields', f))
    /\ UNCHANGED typing

\* set_focus(), of the seat's keyboard: leave first, then enter.  A surface that
\* dies with the focus leaves the same way.
MoveFocus(to) ==
    /\ to \in Fields \cup {NoField} /\ to # typing
    /\ LET had == typing # NoField /\ fields[typing].focus
           after == IF had THEN FieldLeft(fields, typing) ELSE fields
       IN /\ fields' = IF to # NoField /\ after[to].alive THEN [after EXCEPT ![to].focus = TRUE] ELSE after
          /\ TextBecomes(IF had /\ fields[typing].enabled THEN ImDeactivated(im) ELSE im)
    /\ typing' = to

-----------------------------------------------------------------------------
(* The input method, a client: it hears of a done some time after. *)

StartMethod ==
    /\ ~im.alive
    /\ TextBecomes(Pushed([NoMethod EXCEPT !.alive = TRUE], fields))
    /\ UNCHANGED <<fields, typing>>

StopMethod ==
    /\ im.alive
    /\ im' = NoMethod
    /\ UNCHANGED <<fields, typing>>

HearDone ==
    /\ im.alive /\ im.seen < im.done
    /\ im' = [im EXCEPT !.seen = @ + 1]
    /\ UNCHANGED <<fields, typing>>

\* commit_string, preedit, delete: handed on to the field, whose client keeps it
\* for the next done.  The string was made of what the input method had seen.
SendString ==
    /\ im.alive /\ im.seen > 0
    /\ \E f \in Target(fields) : fields' = [fields EXCEPT ![f].staged = @ \cup {im.seen}]
    /\ UNCHANGED <<typing, im>>

\* commit: an answer to a state that is gone is ignored; another is a done for
\* the field.
IgnoredCommit ==
    /\ im.alive /\ im.seen > 0 /\ im.seen # im.done
    /\ im' = [im EXCEPT !.ignored = @ \cup {im.seen}]
    /\ UNCHANGED <<fields, typing>>

CommitMethod ==
    /\ im.alive /\ im.seen = im.done
    /\ \E f \in Target(fields) : fields' = [fields EXCEPT ![f].staged = {}]
    /\ UNCHANGED <<typing, im>>

TextNext ==
    \/ \E f \in Fields :
          \/ GetTextInput(f) \/ DestroyTextInput(f) \/ CommitText(f)
          \/ Wish(f, "enable") \/ Wish(f, "disable")
    \/ \E to \in Fields \cup {NoField} : MoveFocus(to)
    \/ StartMethod \/ StopMethod \/ HearDone \/ SendString \/ IgnoredCommit \/ CommitMethod

TextSpec == TextInit /\ [][TextNext]_textVars

-----------------------------------------------------------------------------
\* A field that is enabled and has the focus is served: the input method, if
\* there is one, is active, and the state it was told last is that field's, as
\* of its last commit.  What it answers with the right count is about that.
FieldServed ==
    im.alive =>
        \A f \in Fields : fields[f].focus /\ fields[f].enabled =>
            im.active /\ im.of = f /\ im.at = fields[f].commits

\* "The protocol says to ignore it; the staged strings go with it" (im_commit(),
\* input_method.cppm): what belonged to a commit that was ignored is not applied
\* by a later one.  Does not hold: the strings are with the field already.
StaleDropped ==
    [][\A f \in Fields :
          fields[f].staged # {} /\ fields'[f].staged = {} /\ fields'[f].focus
          => fields[f].staged \cap im.ignored = {}]_textVars

\* "Whether a text input is enabled and focused for it to serve"
\* (InputMethod::is_active(), desktop.rs).  Does not hold: a field that is
\* destroyed tells the input method nothing.
ActiveServes == im.alive /\ im.active => Target(fields) # {}
=============================================================================
