------------------------------ MODULE HfpAtMC ------------------------------
(***************************************************************************)
(* Instances of HfpAt: a few kinds of AG instead of all combinations.      *)
(***************************************************************************)
EXTENDS HfpAtProperties

Kind(f, r, i, s, n) ==
  [features |-> f, refuses |-> r, ignores |-> i, slow |-> s, requests |-> n]

(* Answers everything, and has every feature but extended errors. *)
Modern == Kind({"twc", "codec", "nrec", "ecs"}, {}, {}, {}, 3)

(* Knows neither AT+BRSF nor three-way calling; its features come by SDP.  *)
Old == Kind({}, {"brsf"}, {}, {}, 1)

(* Refuses a command of the set-up, or a request. *)
Refusing == Kind({"twc", "codec"}, {"bac", "cindTest", "cmer", "copsFormat"}, {}, {}, 1)

(* Leaves commands without an answer once the SLC is there. *)
Silent == Kind({"twc"}, {}, {"btrh", "user", "vgs"}, {}, 2)

(* Its features come by SDP; answers requests perhaps too late. *)
Slow == Kind({"twc"}, {"brsf"}, {}, {"user", "vgs"}, 2)

(* Says nothing at all. *)
Mute == Kind({}, {}, {"brsf"}, {}, 1)

MCAgKinds == {Modern, Old, Refusing, Silent, Slow, Mute}
MCStuck == {Modern, Mute}

============================================================================
