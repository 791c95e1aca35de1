----------------------------- MODULE MCVerifyTask -----------------------------
(* Small instances of VerifyTask for TLC: the answers tell apart a file     *)
(* that verifies the app with a priority in range, one that is too high or  *)
(* too low, which makes a client error, and no answer at all.               *)
EXTENDS VerifyTask, Sequences, TLC

MCAppInfo == [appIdentifier |-> "app", bundleName |-> "pkg", fingerprint |-> "fp"]

FileOf(id, priority) ==
    Parsed(<<[appIdentifier |-> id, bundleName |-> "", fingerprint |-> "",
              priority |-> priority]>>)

MCResponse ==
    {[code |-> OK, file |-> FileOf("app", 5)],
     [code |-> OK, file |-> FileOf("app", 500)],
     [code |-> OK, file |-> FileOf("app", -500)],
     [code |-> 0, file |-> NotParsed]}

MCOverlapResponse ==
    {[code |-> OK, file |-> FileOf("app", 5)],
     [code |-> 404, file |-> NotParsed],
     [code |-> 0, file |-> NotParsed]}

MCClientError == {[code |-> 404, file |-> NotParsed]}

MCSymmetry == Permutations(Task)
===============================================================================
