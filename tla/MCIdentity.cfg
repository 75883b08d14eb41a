SPECIFICATION FairSpec
CONSTANTS
    ann = ann
    bob = bob
    group = group
    d1 = d1
    r1 = r1
    Users = {ann, bob}
    Group = group
    Drafts = {d1}
    Requests = {r1}
    Asker <- MCAsker
    MaxObservations = 1
INVARIANTS
    NeverStuck
PROPERTIES
    Forgotten
