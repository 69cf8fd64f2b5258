------------------------ MODULE MCEnrollmentService ------------------------
(* Instances of EnrollmentService for TLC.                                  *)
EXTENDS EnrollmentService, TLC

CONSTANTS e1, s1, s2, s3, w1, w2, w3

OneEvent == {e1}
TwoSeekers == {s1, s2}
ThreeSeekers == {s1, s2, s3}
TwoWorkers == {w1, w2}
ThreeWorkers == {w1, w2, w3}

LastSeat == {1}
TwoSeats == {2}
SmallCapacities == {1, 2}

BookingOps == {"enroll", "cancel"}
EnrollAndPatch == {"enroll", "patch"}
AllOps == {"enroll", "cancel", "patch", "destroy"}

Symmetry == Permutations(Events) \cup Permutations(Seekers)
            \cup Permutations(Workers)
=============================================================================
