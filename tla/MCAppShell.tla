----------------------------- MODULE MCAppShell -----------------------------
(* A small instance of AppShell for TLC. *)
EXTENDS AppShell

CONSTANTS u1, u2

\* Commands for each outcome of the detectors: a setting, a create with and without
\* a title, a status for a titled todo, and one of which help is also detected.
Quiet == [help |-> FALSE, theme |-> None, language |-> None, intent |-> None,
          title |-> FALSE, status |-> FALSE]
SomeMessages ==
  {[Quiet EXCEPT !.theme = "dark", !.language = "en"], [Quiet EXCEPT !.language = "vi"],
   [Quiet EXCEPT !.intent = "create", !.title = TRUE],
   [Quiet EXCEPT !.intent = "status", !.title = TRUE, !.status = TRUE],
   [Quiet EXCEPT !.intent = "status", !.title = TRUE, !.help = TRUE]}

\* The board or the forms in a light page in English: a first visit, one that found
\* another version's theme and a language it could not read, and one of a user who
\* has chosen.
SomeStorage ==
  /\ prefs = [theme |-> "light", language |-> "en"] /\ route \in {"app", "auth"}
  /\ <<storage, chosen>> \in
       {<<[theme |-> None, language |-> None, tour |-> FALSE],
          [theme |-> None, language |-> None]>>,
        <<[theme |-> "light", language |-> "garbled", tour |-> FALSE],
          [theme |-> None, language |-> None]>>,
        <<[theme |-> "light", language |-> "en", tour |-> TRUE],
          [theme |-> "light", language |-> "en"]>>}
MCInit == Init /\ SomeStorage
MCFairSpec == MCInit /\ [][Next]_vars /\ Fairness
=============================================================================
