SPECIFICATION Spec
CONSTANTS
    self = self
    pc = pc
    pc2 = pc2
    tablet = tablet
    plain = plain
    fpSelf = fpSelf
    fpPc = fpPc
    fpTablet = fpTablet
    NoFp = NoFp
    Services = {self, pc, pc2, tablet, plain}
    Fingerprints = {fpSelf, fpPc, fpTablet}
    FpOf <- FpOfService
    OwnFp = fpSelf
    NameIn <- Names
    Addresses = {1, 2}
    PendingCap = 2
INVARIANTS
    TableIsCurrent
    OwnNameStaysListed
