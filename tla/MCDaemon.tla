------------------------------ MODULE MCDaemon ------------------------------
(* The instances of RecorderDaemon that TLC explores: one around signals   *)
(* and candidates, one around restarts, one around lines that are read     *)
(* again because an offset was not written, two around resends (of signals *)
(* with a key, over a kill; and of both sorts of signals between each      *)
(* other) with a mark that fails, and one around git transitions.          *)
EXTENDS RecorderDaemon

Signals == [ time |-> 1, ids |-> 3, changes |-> 1, gits |-> 0, signals |-> 2,
             cands |-> 1, exits |-> 0, faults |-> 0, stamps |-> {1, 2} \X {TRUE} ]

Restarts == [ time |-> 0, ids |-> 3, changes |-> 1, gits |-> 0, signals |-> 2,
              cands |-> 1, exits |-> 2, faults |-> 0, stamps |-> {<<1, TRUE>>} ]

Rereads == [ time |-> 0, ids |-> 3, changes |-> 0, gits |-> 0, signals |-> 2,
             cands |-> 1, exits |-> 1, faults |-> 1, stamps |-> {<<1, TRUE>>} ]

Resends == [ time |-> 0, ids |-> 2, changes |-> 0, gits |-> 0, signals |-> 3,
             cands |-> 0, exits |-> 1, faults |-> 1, stamps |-> {<<1, TRUE>>} ]

Emitters == [ time |-> 0, ids |-> 2, changes |-> 0, gits |-> 0, signals |-> 3,
              cands |-> 0, exits |-> 0, faults |-> 1,
              stamps |-> {<<1, TRUE>>, <<None, FALSE>>} ]

Transitions == [ time |-> 2, ids |-> 4, changes |-> 2, gits |-> 1, signals |-> 1,
                 cands |-> 0, exits |-> 1, faults |-> 0, stamps |-> {<<1, FALSE>>} ]

Instances == {Signals, Restarts, Rereads, Resends, Emitters, Transitions}
=============================================================================
