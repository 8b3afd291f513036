---- MODULE MCImplementation ----
(* Small instances of Implementation. *)
EXTENDS Implementation, TLC

CONSTANTS f1, f2

\* The manifest is converted and a file of mixed endings made consistent; or only the other
\* file is converted.
SmallBases == {f1 :> "crlf" @@ f2 :> "mixed", f1 :> "lf" @@ f2 :> "crlf"}

\* Nothing to run, or one of the two kinds.
SmallProfiles == {{}, {"python"}, {"npm"}}
====
