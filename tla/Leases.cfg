SPECIFICATION Spec
CONSTANTS
    m1 = m1
    M1 = M1
    longer = longer
    a1 = a1
    a2 = a2
    MACs = {m1, m2}
    Addrs = {a1, a2}
    HWTexts = {m1, m2, M1, longer}
    IPTexts = {a1, a2}
    MACOf <- SpelledMAC
    IPOf <- SpelledIP
    Unparsable = Unparsable
    Hostnames = {"pi", "none"}
    NoName = "none"
    Leasable <- Anyhow
    Vendor <- OneVendor
    Known <- BothTaken
    MaxEdits = 3
INVARIANTS
    TypeOK
    PollReflects
PROPERTIES
    Settles
    UserRowsKept
    LeasedRowsKept
