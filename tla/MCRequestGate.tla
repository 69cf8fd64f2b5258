--------------------------- MODULE MCRequestGate ---------------------------
(* Instances of RequestGate for TLC.                                        *)
EXTENDS RequestGate, TLC

CONSTANTS w1, w2, sam, new, fay, root

TwoWorkers == {w1, w2}
TwoSeekers == {sam, new}
Call(path, token, about) == [path |-> path, token |-> token, about |-> about]

(* The throttled paths, each alone, and the verification of a code.         *)
LoginCalls == { Call("login", Nobody, sam) }
AdminCalls == { Call("login", Nobody, root) }
SignupCalls == { Call("signup", Nobody, new) }
ResendCalls == { Call("resend", Nobody, sam) }
CodeCalls == { Call("verify", Nobody, sam), Call("verify", Nobody, root) }

(* The handlers of an event, by those they are meant for.                   *)
EventCalls ==
    { Call("create", fay, fay), Call("edit", fay, fay), Call("destroy", fay, fay),
      Call("enroll", sam, fay), Call("cancel", sam, fay) }

(* The same by others, and the reads.                                       *)
RoleCalls ==
    { Call("create", fay, fay), Call("create", sam, sam), Call("read", root, fay),
      Call("manage", fay, fay), Call("manage", sam, sam), Call("history", sam, sam),
      Call("enroll", fay, fay), Call("enroll", Nobody, fay), Call("enroll", sam, fay),
      Call("destroy", sam, fay), Call("edit", fay, sam) }
SampleMixes ==
    {LoginCalls, AdminCalls, SignupCalls, ResendCalls, CodeCalls, EventCalls, RoleCalls}

Symmetry == Permutations(TwoWorkers)
=============================================================================
