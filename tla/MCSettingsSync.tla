---------------------------- MODULE MCSettingsSync ----------------------------
(* Small instances of SettingsSync. *)
EXTENDS SettingsSync, TLC

\* The device starts with the session of the same account in every behaviour,
\* as nothing distinguishes accounts; the others have stored nothing yet.
MCInit ==
  /\ Init
  /\ \A c \in Device : /\ cookie[c] = (CHOOSE a \in Account : TRUE)
                        /\ \A a \in Account \ {cookie[c]} : row[a] = NoRow

\* Bound: a behaviour has a fault or a change of account, not both.
OneDisturbance == faults + switches <= 1

MCSpec == MCInit /\ [][Next /\ OneDisturbance']_vars /\ Fairness

=============================================================================
