----------------------------- MODULE MCIdentity -----------------------------
(* Identity with two requests at a time.  A behaviour makes requests of the *)
(* kinds of one of the situations below.                                    *)
EXTENDS Identity, TLC

(* A lasting staff grant and a privileged one with a window.                *)
MCGrantOf ==
  [staff |-> [codes |-> {"read"}, from |-> 0, to |-> 99, privileged |-> FALSE, mfa |-> FALSE],
   acting |-> [codes |-> {"approve"}, from |-> 1, to |-> 2, privileged |-> TRUE, mfa |-> FALSE],
   admin |-> [codes |-> {"grant"}, from |-> 0, to |-> 99, privileged |-> TRUE, mfa |-> TRUE]]

Situation(these, factor, held, past) ==
  [kinds |-> these, mfa |-> factor, grants |-> held, mcp |-> FALSE, minted |-> past]

MCStarts ==
  {Situation({"login", "wrong", "request", "logout"}, "off", {"staff"}, 1),
   Situation({"login", "request", "deactivate", "sessions"}, "off", {"staff"}, 1),
   Situation({"login", "request", "password", "reset", "sessions"}, "off", {"staff"}, 0),
   Situation({"login", "request", "ask", "grant"}, "off", {"acting"}, 2),
   Situation({"login", "request", "mfa"}, "off", {"admin"}, 1),
   Situation({"login"}, "on", {"staff"}, 1)}

Symmetry == Permutations(Procs)
=============================================================================
