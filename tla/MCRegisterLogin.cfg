SPECIFICATION Spec
CONSTANTS
    ann = ann  bob = bob  p1 = p1  p2 = p2  s1 = s1
    c1 = c1  c2 = c2
    Emails = {ann, bob}
    Passwords = {p1, p2}
    Stores = {s1}
    Calls = {c1, c2}
    Operations = {"register", "login"}
    Imported = {ann}
    MaxFaults = 0
    NoStore = NoStore  NoPassword = NoPassword  NoCall = NoCall
INVARIANTS
    LoginAfterRegister
CHECK_DEADLOCK FALSE
