------------------------------- MODULE Domain -------------------------------
(***************************************************************************)
(* The values shared by the modules on billing, rates and parsing.         *)
(***************************************************************************)
CONSTANTS
  NULL,       \* an optional value that is not there, a row that is not there
  Users,      \* ids of our users
  Currencies  \* three-letter codes
=============================================================================
