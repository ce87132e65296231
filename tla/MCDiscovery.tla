---------------------------- MODULE MCDiscovery -----------------------------
(***************************************************************************)
(* Discovery with this device, a device that was renamed from "PC2" to     *)
(* "PC", another one, and a service without a fingerprint.                 *)
(***************************************************************************)
EXTENDS Discovery
CONSTANTS self, pc, pc2, tablet, plain, fpSelf, fpPc, fpTablet
FpOfService == [s \in {self, pc, pc2, tablet, plain} |->
    CASE s = self -> fpSelf [] s \in {pc, pc2} -> fpPc [] s = tablet -> fpTablet [] OTHER -> NoFp]
Names == {<<s, s>> : s \in {self, pc, pc2, tablet, plain}} \cup {<<pc, pc2>>}
=============================================================================
