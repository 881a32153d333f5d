----------------------------- MODULE MCSessions -----------------------------
(* A page of browser "b1" with its boot code and its account menu, and a   *)
(* page of a second browser.                                               *)
EXTENDS Sessions

MCBrowserOf == [c \in Client |-> IF c = "phone" THEN "b2" ELSE "b1"]
MCInitJar == [b \in Browser |-> IF b = "b1" THEN 1 ELSE 2]
=============================================================================
