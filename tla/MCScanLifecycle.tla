-------------------------- MODULE MCScanLifecycle --------------------------
(* The instances of ScanLifecycle that TLC checks: a Windows executable     *)
(* that two engines detect and a PDF that none does, but that the two intel *)
(* engines know as a good file; clamav takes every file, pescan            *)
(* executables.                                                            *)
EXTENDS ScanLifecycle, TLC

CONSTANTS s1, s2, h1, h2

MCMimes   == {"exe", "pdf"}
MCMimeOf  == h1 :> "exe" @@ h2 :> "pdf"
MCIntel   == {"nsrl"}
MCWildcard == {"clamav"}
MCListed  == "exe" :> {"pescan"} @@ "pdf" :> {}

Known    == [NoHit EXCEPT !.found = TRUE]
Infected == [NoHit EXCEPT !.infected = TRUE]
Matches  == [NoHit EXCEPT !.hits = 1]
MCBlank  == "nsrl" :> NoHit @@ "clamav" :> NoHit @@ "pescan" :> [NoHit EXCEPT !.status = "skipped"]
MCFinds  == "nsrl"   :> (h1 :> NoHit @@ h2 :> Known)
         @@ "clamav" :> (h1 :> Infected @@ h2 :> NoHit)
         @@ "pescan" :> (h1 :> Matches @@ h2 :> NoHit)

MCSame     == s1 :> h1 @@ s2 :> h1
MCDistinct == s1 :> h1 @@ s2 :> h2
MCUploaded == {MCSame, MCDistinct}
MCShared   == {MCSame}

(* The special engine of the instance keeps to its own field.              *)
ASSUME SpecialAssumption == Ambiguous = {}
=============================================================================
