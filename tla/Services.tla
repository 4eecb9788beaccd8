------------------------------- MODULE Services -------------------------------
(***************************************************************************)
(* What clients are served beside surfaces, keys and pointers: text from   *)
(* the input method, tokens that move the focus, screens that show what    *)
(* was given to them and that can be captured.  The three share no state.  *)
(***************************************************************************)
EXTENDS TextBridge, Activation, ScreenManager

\* What a client asked for it gets, and once: the focused field the text, the
\* client that was promised the focus the activation, the screen its frame and
\* whoever captures it its size.
ClientsServed == FieldServed /\ TokensHonest /\ ScreensCurrent
=============================================================================
