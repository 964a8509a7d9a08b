---------------------------- MODULE SeatSessions ----------------------------
(* The seats of the control plane (seats_api) and the device logins started  *)
(* on them (sessions_api).  A seat is changed by reading it twice, merging  *)
(* and writing all of it back; a login reads it once, then runs a command   *)
(* of the vendor for up to thirty seconds.  A configuration directory is    *)
(* named by the home it lies in, so a seat is isolated when the two agree.  *)
EXTENDS Naturals, FiniteSets

CONSTANTS
    Homes,      \* home directories
    Patches,    \* requests of PATCH /seats/{id}
    FieldsOf,   \* what each of them changes
    Logins,     \* requests of device-login, renew and status; each makes a row
    Lifetime    \* expires_in, in ticks

Fields == {"active", "home", "config", "both"}
SessionAssumption ==
    /\ Homes # {} /\ Lifetime \in Nat
    /\ \A p \in Patches : FieldsOf[p] \subseteq Fields

VARIABLES
    seat,       \* the row of the seat
    patch,      \* where each change is, what it changes, what it has merged
    command,    \* whether a command is configured for the vendor
    login,      \* where each login is, and the seat it has read
    session,    \* the row each login has made
    checking,   \* a session that status() has found expired, and has not set yet
    raced       \* a change of the seat came while a patch was under way

sessionVars == <<seat, patch, command, login, session, checking, raced>>

Isolated(s) == s.home = s.config
SomeHome == CHOOSE h \in Homes : TRUE
NoSeat == [exists |-> FALSE, active |-> FALSE, home |-> SomeHome, config |-> SomeHome]
NoPatch == [at |-> "new", field |-> "active", value |-> SomeHome, merged |-> NoSeat]
Ended == [NoPatch EXCEPT !.at = "ended"]
NoSession == [status |-> "none", left |-> 0, home |-> SomeHome, config |-> SomeHome]

Init ==
    /\ seat = NoSeat
    /\ patch = [p \in Patches |-> NoPatch]
    /\ command \in BOOLEAN
    /\ login = [l \in Logins |-> [at |-> "new", seat |-> NoSeat]]
    /\ session = [l \in Logins |-> NoSession]
    /\ checking = {}
    /\ raced = FALSE

Races == raced' = (raced \/ \E p \in Patches : patch[p].at \in {"checked", "merged"})

(* ---- Seats ------------------------------------------------------------ *)
\* Registering is an upsert: it replaces the row of a seat that is there.
RegisterSeat(h) ==
    /\ \E active \in BOOLEAN : seat' = [exists |-> TRUE, active |-> active, home |-> h, config |-> h]
    /\ Races
    /\ UNCHANGED <<patch, command, login, session, checking>>

\* The sessions of the seat stay.
RemoveSeat ==
    /\ seat.exists /\ seat' = [seat EXCEPT !.exists = FALSE]
    /\ Races
    /\ UNCHANGED <<patch, command, login, session, checking>>

Changed(s, field, h) ==
    CASE field = "active" -> [s EXCEPT !.active = ~@]
      [] field = "home" -> [s EXCEPT !.home = h]
      [] field = "config" -> [s EXCEPT !.config = h]
      [] field = "both" -> [s EXCEPT !.home = h, !.config = h]

\* The router reads the seat to check the paths; 404 and 422 end the request.
PathsAllowed_Any(s) == TRUE
PathsAllowed(s) == Isolated(s)
CheckPatch(p, field, h) ==
    /\ patch[p].at = "new" /\ seat.exists
    /\ field = "active" => h = SomeHome
    /\ patch' = [patch EXCEPT ![p] = [at |-> "checked", field |-> field, value |-> h, merged |-> NoSeat]]
    /\ PathsAllowed(Changed(seat, field, h))
    /\ UNCHANGED <<seat, command, login, session, checking, raced>>

\* The repository reads it again to merge the changes.
MergePatch(p) ==
    /\ patch[p].at = "checked"
    /\ patch' = [patch EXCEPT ![p] =
                    IF seat.exists THEN [NoPatch EXCEPT !.at = "merged", !.merged = Changed(seat, patch[p].field, patch[p].value)]
                    ELSE Ended]
    /\ UNCHANGED <<seat, command, login, session, checking, raced>>

\* The upsert writes every column, and the row itself when it was removed.
WritePatch(p) ==
    /\ patch[p].at = "merged"
    /\ seat' = [patch[p].merged EXCEPT !.exists = TRUE]
    /\ patch' = [patch EXCEPT ![p] = Ended]
    /\ raced' = (raced \/ \E q \in Patches \ {p} : patch[q].at \in {"checked", "merged"})
    /\ UNCHANGED <<command, login, session, checking>>

(* ---- Sessions --------------------------------------------------------- *)
Row(status, s) == [status |-> status, left |-> Lifetime, home |-> s.home, config |-> s.config]
Made(l, status, s) ==
    /\ login' = [login EXCEPT ![l] = [at |-> "ended", seat |-> NoSeat]]
    /\ session' = [session EXCEPT ![l] = Row(status, s)]

\* start: a seat that is inactive, has no command or is not isolated makes a
\* degraded row; otherwise its directories are made and the command is run.
Runnable(s) == s.active /\ command /\ Isolated(s)
StartLogin(l) ==
    /\ login[l].at = "new" /\ seat.exists
    /\ IF Runnable(seat)
       THEN login' = [login EXCEPT ![l] = [at |-> "running", seat |-> seat]] /\ UNCHANGED session
       ELSE Made(l, "degraded", seat)
    /\ UNCHANGED <<seat, patch, command, checking, raced>>

\* A payload with an address makes a pending row; another answer, or an exit
\* code, a degraded one; no answer in time, or no such command, none at all.
CommandEnds(l) ==
    /\ login[l].at = "running"
    /\ \/ \E status \in {"pending", "degraded"} : Made(l, status, login[l].seat)
       \/ login' = [login EXCEPT ![l] = [at |-> "ended", seat |-> NoSeat]] /\ UNCHANGED session
    /\ UNCHANGED <<seat, patch, command, checking, raced>>

Tick ==
    /\ \E l \in Logins : session[l].left > 0
    /\ session' = [l \in Logins |-> [session[l] EXCEPT !.left = IF @ > 0 THEN @ - 1 ELSE 0]]
    /\ UNCHANGED <<seat, patch, command, login, checking, raced>>

\* status: reads, and sets in a second transaction.
Expired_Early(s) == TRUE
Expired(s) == s.left = 0
FindExpired(l) ==
    /\ session[l].status = "pending" /\ Expired(session[l])
    /\ checking' = checking \cup {l}
    /\ UNCHANGED <<seat, patch, command, login, session, raced>>
SetExpired(l) ==
    /\ l \in checking /\ checking' = checking \ {l}
    /\ session' = [session EXCEPT ![l].status = "expired"]
    /\ UNCHANGED <<seat, patch, command, login, raced>>

\* renew: without a command it degrades the row, whatever its status; with one
\* it starts a login of its own, with a new row, and leaves this one alone.
RenewDegrades(l) ==
    /\ session[l].status # "none" /\ ~command
    /\ session' = [session EXCEPT ![l].status = "degraded"]
    /\ UNCHANGED <<seat, patch, command, login, checking, raced>>

\* The server restarts with other commands.
Reconfigure ==
    /\ \A l \in Logins : login[l].at # "running"
    /\ command /\ command' = FALSE
    /\ UNCHANGED <<seat, patch, login, session, checking, raced>>

Next ==
    \/ (\E h \in Homes : RegisterSeat(h)) \/ RemoveSeat \/ Tick \/ Reconfigure
    \/ \E p \in Patches :
         \/ \E f \in FieldsOf[p], h \in Homes : CheckPatch(p, f, h)
         \/ MergePatch(p) \/ WritePatch(p)
    \/ \E l \in Logins : StartLogin(l) \/ CommandEnds(l) \/ FindExpired(l) \/ SetExpired(l) \/ RenewDegrades(l)
Spec == Init /\ [][Next]_sessionVars

(* ---- Properties ------------------------------------------------------- *)
TypeOK ==
    /\ seat \in [exists : BOOLEAN, active : BOOLEAN, home : Homes, config : Homes]
    /\ \A p \in Patches : patch[p].at \in {"new", "checked", "merged", "ended"}
    /\ \A l \in Logins : /\ login[l].at \in {"new", "running", "ended"}
                         /\ session[l].status \in {"none", "pending", "degraded", "expired"}

\* seats_api/router.py:83-100, service.py:41-160: no login runs, or waits for
\* its user, with a configuration outside its home, not even when two changes
\* that were each checked leave such a seat behind; the seat itself is so only
\* if changes of it have overlapped.  A login is given up as expired only after
\* its time, and from then on never pending again.
LoginsIsolated ==
    /\ \A l \in Logins : /\ login[l].at = "running" => Isolated(login[l].seat)
                         /\ session[l].status = "pending" => Isolated(session[l])
                         /\ session[l].status = "expired" => session[l].left = 0
    /\ seat.exists /\ ~Isolated(seat) => raced
=============================================================================
