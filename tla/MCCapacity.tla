---------------------------- MODULE MCCapacity -----------------------------
(* Small instances of Capacity for TLC: hardware whose memory differs by    *)
(* less than five per cent from one to the next but not from the first to   *)
(* the last, GPUs just above a tier's tolerance, and a larger machine.      *)
EXTENDS Capacity, TLC

CONSTANTS m1, m2, m3

MCTrust == m1 :> 30 @@ m2 :> 60 @@ m3 :> 90

MCHardware == {[cores |-> 2, ram |->  800, vram |->     0],
               [cores |-> 2, ram |->  840, vram |->  7400],
               [cores |-> 2, ram |->  880, vram |-> 14800],
               [cores |-> 2, ram |-> 1100, vram |->     0],
               [cores |-> 8, ram |-> 3300, vram |-> 24576]}

MCRequests == {[cpu |-> "light",  memory |-> "gb8",  gpu |-> None,   duration |-> None],
               [cpu |-> "light",  memory |-> "gb8",  gpu |-> "gb8",  duration |-> "lt1h"],
               [cpu |-> "light",  memory |-> "gb8",  gpu |-> "gb16", duration |-> "h1_6"],
               [cpu |-> "medium", memory |-> "gb32", gpu |-> None,   duration |-> "h12_24"]}
=============================================================================
