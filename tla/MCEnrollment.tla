---- MODULE MCEnrollment ----
EXTENDS Enrollment, TLC

Symmetry == Permutations(Admins) \cup Permutations(Users)

\* A file with everything in it, a string without, and a QR code that --json leaves out.
MCForms == {[grant |-> TRUE, sinks |-> {"file"}, json |-> FALSE, include |-> {"file"}],
            [grant |-> FALSE, sinks |-> {"text"}, json |-> FALSE, include |-> {}],
            [grant |-> FALSE, sinks |-> {"qr"}, json |-> TRUE, include |-> {}]}
====
