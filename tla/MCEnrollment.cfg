CONSTANTS
 Admins = {a1, a2}
 Machines = {m1}
 Users = {u1, u2}
 MaxCounter = 2
 MaxPushed = 3
 MaxCrashes = 1
 InviteForms <- MCForms
 NoUser = NoUser
 NoRatchet = NoRatchet
 NoBaseline = NoBaseline
 NoJournal = NoJournal
 NoVault = NoVault
SPECIFICATION Spec
SYMMETRY Symmetry
INVARIANTS TypeOK MemberHasInvite
PROPERTIES NoLostWrite FirstMemoryFromIssuer
