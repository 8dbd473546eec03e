----------------------------- MODULE MCSessions ------------------------------
(* One user: two tabs of a browser at home, which are alike, and one tab   *)
(* of a phone.                                                             *)
EXTENDS Sessions, TLC

CONSTANTS left, right, phone

MCBrowser == [t \in Tabs |-> IF t = phone THEN "mobile" ELSE "desktop"]
MCUser == [b \in {"desktop", "mobile"} |-> "ada"]
Alike == Permutations({left, right})
==============================================================================
