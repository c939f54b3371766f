SPECIFICATION Spec
CONSTANTS
    m1 = m1
    M1 = M1
    longer = longer
    a1 = a1
    a2 = a2
    MACs = {m1, m2}
    Addrs = {a1, a2}
    HWTexts = {m1, m2}
    IPTexts = {a1, a2}
    MACOf <- SpelledMAC
    IPOf <- SpelledIP
    Unparsable = Unparsable
    Hostnames = {"pi", "none"}
    NoName = "none"
    Leasable <- InNormalForm
    Vendor <- OneVendor
    Known = {}
    MaxEdits = 4
PROPERTIES
    UserRowsSurvivePrune
