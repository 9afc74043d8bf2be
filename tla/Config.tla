------------------------------- MODULE Config -------------------------------
(***************************************************************************)
(* The settings of the gateway (src/internal/config/config.go): variables  *)
(* of the environment, completed by the lines of a file .env.  A line is   *)
(* the key and the value around its first `=', without blanks; comments    *)
(* and lines without `=' are left out.                                     *)
(***************************************************************************)
EXTENDS Naturals, SequencesExt

CONSTANTS Keys, Values, \* of settings
          Numbers       \* the values that are numbers

Unset == ""   \* os.Getenv does not tell an empty variable from none

ASSUME ConfigAssumption == Unset \notin Numbers

Anytime(environment, key) == TRUE   \* mutant of Missing: the file wins
Missing(environment, key) == environment[key] = Unset

LoadLine(environment, line) ==
  IF Missing(environment, line.key) THEN [environment EXCEPT ![line.key] = line.value]
                                    ELSE environment

LoadDotEnv(environment, lines) == FoldLeft(LoadLine, environment, lines)

Value(environment, key, fallback) ==
  IF environment[key] # Unset THEN environment[key] ELSE fallback

IntValue(environment, key, fallback) ==
  IF environment[key] \in Numbers THEN environment[key] ELSE fallback
=============================================================================
