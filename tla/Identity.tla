-------------------------------- MODULE Identity --------------------------------
(***************************************************************************)
(* Who an address signs in: the employees and accounts that administrators *)
(* and the people sheet make (routers/people.py, people_sheet.py,          *)
(* provision.py), the Google addresses of each (users.login_email,         *)
(* employees.work_email and onboarding.py PersonalEmail), and the people   *)
(* who sign in with them: Google sign-in, the confirm-your-code step and   *)
(* the linking of an address (routers/auth.py).                            *)
(*                                                                         *)
(* An account belongs to one employee, so both go by the employee's code.  *)
(* Whoever holds an address is one visitor.  The confirm-your-code handler *)
(* hashes a PIN between its reads and its commit; the other handlers are   *)
(* one step.  Sheets and rosters are one row at a time.  Addresses are     *)
(* lowercased already.                                                     *)
(***************************************************************************)
EXTENDS Naturals, FiniteSets

CONSTANTS
    Code,       \* employee codes
    Company,    \* addresses of the company's domain
    Private,    \* other Google addresses
    Absent,
    MaxActs     \* bound: what administrators do, and links

ASSUME IdentityAssumption == Absent \notin Code \cup Company \cup Private

VARIABLES
    employees,  \* work_email of each employee, and whether it is a functional mailbox
    users,      \* login_email, the state of the PIN, is_active and is_platform_admin
    listed,     \* personal_emails: of each address, the owner and whether it is verified
    visits,     \* where the holder of each address is
    acts,
    proved,     \* history: the codes typed by each address since it was listed
    crossed,    \* history: addresses listed anew while the confirm step was at work on them
    overlapped, \* history: accounts whose PIN changed while the confirm step was at work on them
    lost        \* history: accounts whose own PIN the confirm step has replaced

identityVars == <<employees, users, listed, visits, acts, proved, crossed, overlapped, lost>>

Address == Company \cup Private
MaybeAddress == Address \cup {Absent}

\* "unset": pin_set_at is empty; "issued": a one-time PIN, to be changed; "own".
PinState == {"unset", "issued", "own"}
Employee == [work : MaybeAddress, functional : BOOLEAN]
UserRow == [login : MaybeAddress, pin : PinState, active : BOOLEAN, admin : BOOLEAN]
NoEmployee == [work |-> Absent, functional |-> Absent]
NoUser == [login |-> Absent, pin |-> Absent, active |-> FALSE, admin |-> FALSE]
Unlisted == [owner |-> Absent, verified |-> FALSE]
Out == [at |-> "out"]

Employed(k) == employees[k] # NoEmployee
HasUser(k) == users[k] # NoUser

IdentityInit ==
    /\ employees = [k \in Code |-> NoEmployee]
    /\ users = [k \in Code |-> NoUser]
    /\ listed = [a \in Address |-> Unlisted]
    /\ visits = [a \in Address |-> Out]
    /\ acts = 0
    /\ proved = {}
    /\ crossed = {}
    /\ overlapped = {}
    /\ lost = {}

Login(a) == {k \in Code : HasUser(k) /\ users[k].login = a}
Work(a) == {k \in Code : Employed(k) /\ employees[k].work = a}
Personal(k) == {a \in Address : listed[a].owner = k}

\* users.login_email and employees.work_email are unique.
Unique == \A a \in Address : Cardinality(Login(a)') <= 1 /\ Cardinality(Work(a)') <= 1

Submitting(a) == visits[a].at = "submitted"

\* What every change does to the histories.
Watch ==
    /\ crossed' = crossed \cup {a \in Address :
            Submitting(a) /\ listed'[a].owner # listed[a].owner /\ listed'[a].owner # Absent}
    /\ overlapped' = overlapped \cup {k \in Code :
            users'[k].pin # users[k].pin
            /\ \E a \in Address : Submitting(a) /\ Submitting(a)' /\ visits[a].user = k}

-----------------------------------------------------------------------------
(* Google sign-in                                                          *)

Visit(a, v) == visits' = [visits EXCEPT ![a] = v]
Nothing == UNCHANGED <<employees, users, listed, acts, proved, crossed, overlapped, lost>>

\* _complete_google_login, in its order: an account of this login_email, the owner of the
\* listed address, a new account for the company's domain.
GoogleLogin(a) ==
    LET owner == listed[a].owner
        known == IF Login(a) # {} THEN Login(a)
                 ELSE {k \in {owner} \ {Absent} : users[k].active /\ listed[a].verified}
        awaited == Login(a) = {} /\ owner # Absent /\ users[owner].active /\ ~listed[a].verified
    IN  /\ visits[a] = Out
        /\ \/ \E k \in known : users[k].active /\ Visit(a, [at |-> "in", user |-> k])
           \/ awaited /\ Visit(a, [at |-> "welcome", mode |-> "personal", user |-> owner])
           \/ /\ known = {} /\ ~awaited /\ a \in Company
              /\ Visit(a, [at |-> "welcome", mode |-> "new", user |-> Absent])
        /\ Nothing

\* The cookie of the confirm step expires, the session ends, the request fails.
Leave(a) ==
    /\ visits[a] # Out
    /\ Visit(a, Out)
    /\ Nothing

\* Mutant of PinStands: the confirm step sets the PIN it gets.
PinNeverStands(pin) == FALSE

\* A PIN its owner chose is the proof of the confirm step, and stays.
PinStands(pin) == pin = "own"

Submit(a, mode, k) ==
    Visit(a, [at |-> "submitted", mode |-> mode, user |-> k, pin |-> users[k].pin])

\* onboard reads what it needs.  The code typed must be the one of the account that the
\* cookie, or the session, already points at; whoever typed another one stays where they are.
SubmitSession(a) ==
    /\ visits[a].at = "in"
    /\ LET k == visits[a].user IN users[k].active /\ users[k].pin = "unset" /\ Submit(a, "session", k)
    /\ Nothing

SubmitPersonal(a) ==
    /\ visits[a].at = "welcome" /\ visits[a].mode = "personal"
    /\ LET k == visits[a].user IN users[k].active /\ listed[a].owner = k /\ Submit(a, "personal", k)
    /\ Nothing

\* A company address without an account: the code of an employee without an account either.
SubmitNew(a, k) ==
    /\ visits[a].at = "welcome" /\ visits[a].mode = "new"
    /\ Login(a) = {}
    /\ Work(a) \subseteq {k}
    /\ ~HasUser(k)
    /\ Employed(k) => employees[k].work \in {a, Absent}
    /\ Submit(a, "new", k)
    /\ Nothing

OnlyUsers == UNCHANGED <<employees, listed, proved>>

SetPin(k, pin) == [users EXCEPT ![k].pin = pin]

Enter(a, k) ==
    /\ Visit(a, [at |-> "in", user |-> k])
    /\ UNCHANGED acts
    /\ Watch

CommitSession(a) ==
    LET k == visits[a].user IN
    /\ Submitting(a) /\ visits[a].mode = "session"
    /\ users' = SetPin(k, "own")
    /\ lost' = lost \cup (IF users[k].pin = "own" THEN {k} ELSE {})
    /\ OnlyUsers
    /\ Enter(a, k)

\* The PIN is set, or it was the right one; verified_at is written to the row of the address,
\* which must be there.
CommitPersonal(a) ==
    LET k == visits[a].user
        stands == PinStands(visits[a].pin)
    IN  /\ Submitting(a) /\ visits[a].mode = "personal"
        /\ listed[a].owner # Absent
        /\ listed' = [listed EXCEPT ![a].verified = TRUE]
        /\ proved' = proved \cup {<<a, k>>}
        /\ users' = IF stands THEN users ELSE SetPin(k, "own")
        /\ lost' = lost \cup (IF users[k].pin = "own" /\ ~stands THEN {k} ELSE {})
        /\ UNCHANGED employees
        /\ Enter(a, k)

CommitNew(a) ==
    LET k == visits[a].user IN
    /\ Submitting(a) /\ visits[a].mode = "new"
    /\ ~HasUser(k)
    /\ users' = [users EXCEPT ![k] = [login |-> a, pin |-> "own", active |-> TRUE, admin |-> FALSE]]
    /\ employees' = IF Employed(k) THEN employees
                    ELSE [employees EXCEPT ![k] = [work |-> a, functional |-> FALSE]]
    /\ Unique
    /\ UNCHANGED <<listed, proved, lost>>
    /\ Enter(a, k)

-----------------------------------------------------------------------------
(* Administrators, and people in their own account                         *)

\* One that changes nothing is left out.
Act ==
    /\ acts < MaxActs
    /\ <<employees, users, listed, visits>>' # <<employees, users, listed, visits>>
    /\ acts' = acts + 1
    /\ Unique
    /\ Watch
    /\ UNCHANGED lost

\* The sessions of these accounts end.
SignOut(ks) == visits' = [a \in Address |->
    IF visits[a].at = "in" /\ visits[a].user \in ks THEN Out ELSE visits[a]]

\* _complete_google_link, by somebody who is signed in with a PIN or with Google and has no
\* PIN to change first.
Link(k, a) ==
    /\ users[k].active
    /\ users[k].pin = "own" \/ (users[k].pin = "unset" /\ \E b \in Address : visits[b] = [at |-> "in", user |-> k])
    /\ Login(a) \subseteq {k}
    /\ users' = [users EXCEPT ![k].login = a]
    /\ UNCHANGED visits /\ OnlyUsers
    /\ Act

\* change_pin.
ChangePin(k) ==
    /\ users[k].active /\ users[k].pin \in {"issued", "own"}
    /\ users' = SetPin(k, "own")
    /\ SignOut({k})
    /\ OnlyUsers /\ Act

\* set_user_pin and reset_account_pin; set_user_pin also clears it.
ResetPin(k, pin) ==
    /\ HasUser(k)
    /\ users' = SetPin(k, pin)
    /\ SignOut({k})
    /\ OnlyUsers /\ Act

\* update_user and patch_account: an administrator signs in with Google, with the address of
\* the employee when the account has none.
Switch(k, active, admin) ==
    LET login == IF users[k].login = Absent /\ admin THEN employees[k].work ELSE users[k].login
    IN  /\ HasUser(k)
        /\ admin => login # Absent
        /\ users' = [users EXCEPT ![k].active = active, ![k].admin = admin, ![k].login = login]
        /\ SignOut({k})
        /\ OnlyUsers /\ Act

Account(login, pin, active) == [login |-> login, pin |-> pin, active |-> active, admin |-> FALSE]

NewEmployee(k, a) ==
    /\ ~Employed(k)
    /\ employees' = [employees EXCEPT ![k] = [work |-> a, functional |-> FALSE]]
    /\ UNCHANGED <<listed, visits, proved>>

CreateEmployee(k, a) ==
    /\ NewEmployee(k, a)
    /\ UNCHANGED users
    /\ Act

\* create_person makes the account with the employee.
CreatePerson(k, a) ==
    /\ a # Absent => Work(a) = {}
    /\ NewEmployee(k, a)
    /\ users' = [users EXCEPT ![k] = Account(a, "unset", TRUE)]
    /\ Act

\* update_employee, of work_email.
EditWork(k, a) ==
    /\ Employed(k)
    /\ employees' = [employees EXCEPT ![k].work = a]
    /\ UNCHANGED <<users, listed, visits, proved>>
    /\ Act

\* provision_by_code, of an account that is switched on: a one-time PIN, and administration.
ProvisionByCode(k, admin) ==
    LET login == IF users[k].login = Absent /\ admin THEN employees[k].work ELSE users[k].login
    IN  /\ users[k].active
        /\ admin => login # Absent
        /\ users' = [users EXCEPT ![k] = [@ EXCEPT !.login = login, !.admin = @ \/ admin, !.pin = "issued"]]
        /\ SignOut({k})
        /\ OnlyUsers /\ Act

\* The employee of a roster's row.
Mailbox(k, a) == [work |-> a, functional |-> IF Employed(k) THEN employees[k].functional ELSE TRUE]

\* The account of a roster's row is never switched on or off, and never loses an address.
Rostered(k, a, active, admin, reset) ==
    IF ~HasUser(k) THEN [Account(a, "issued", active) EXCEPT !.admin = admin]
    ELSE [users[k] EXCEPT !.pin = IF @ = "unset" \/ reset THEN "issued" ELSE @,
                          !.login = IF @ = Absent /\ admin /\ ~users[k].admin THEN a ELSE @,
                          !.admin = @ \/ admin]

\* create_account, one row of bulk_accounts, and the loader of rosters.
Roster(k, a, active, admin, reset) ==
    /\ employees' = [employees EXCEPT ![k] = Mailbox(k, a)]
    /\ users' = [users EXCEPT ![k] = Rostered(k, a, active, admin, reset)]
    /\ SignOut(IF users[k].pin = "unset" \/ reset THEN {k} ELSE {})
    /\ UNCHANGED <<listed, proved>>
    /\ Act

\* set_employee_emails, the official address.
SetOfficial(k, a) ==
    /\ Employed(k)
    /\ IF a = Absent
       THEN HasUser(k) => ~users[k].admin /\ users[k].pin # "unset"
       ELSE /\ a \in Company
            /\ Login(a) \subseteq {k} /\ Work(a) \subseteq {k}
            /\ listed[a] = Unlisted
    /\ employees' = [employees EXCEPT ![k].work = a]
    /\ users' = IF HasUser(k) THEN [users EXCEPT ![k].login = a] ELSE users
    /\ SignOut({k})
    /\ UNCHANGED <<listed, proved>>
    /\ Act

\* Mutant of Relist: the row of the account gets the other address and keeps the rest.
RelistInPlace(k, a) ==
    listed' = [b \in Address |->
        IF b = a THEN [owner |-> k, verified |-> \E c \in Personal(k) : listed[c].verified]
        ELSE IF listed[b].owner = k THEN Unlisted ELSE listed[b]]

\* The row of the account is deleted and another one, not verified, inserted.
Relist(k, a) ==
    listed' = [b \in Address |-> IF b = a THEN [owner |-> k, verified |-> FALSE]
                                 ELSE IF listed[b].owner = k THEN Unlisted ELSE listed[b]]

Free(k, a) == listed[a].owner \in {k, Absent} /\ Login(a) \subseteq {k}

\* The same of the personal address.
SetPersonal(k, a) ==
    /\ HasUser(k)
    /\ Free(k, a) /\ listed[a].owner # k
    /\ Relist(k, a)
    /\ proved' = proved \ {<<a, k>>}
    /\ SignOut({k})
    /\ UNCHANGED <<employees, users>>
    /\ Act

RemovePersonal(k) ==
    /\ Personal(k) # {} /\ HasUser(k)
    /\ listed' = [b \in Address |-> IF listed[b].owner = k THEN Unlisted ELSE listed[b]]
    /\ SignOut({k})
    /\ UNCHANGED <<employees, users, proved>>
    /\ Act

\* run_import, one row of the people sheet: the official address `a`, the personal one `p`.
\* It fills the login_email that is missing, switches the account of somebody who has left
\* off, and leaves a personal address that is taken alone.
SheetRow(k, a, p, exited) ==
    LET relists == p # Absent /\ Free(k, p) /\ listed[p].owner # k
        login == IF HasUser(k) /\ users[k].login # Absent THEN users[k].login ELSE a
    IN  /\ ~(Employed(k) /\ employees[k].functional)
        /\ a # Absent => Work(a) \subseteq {k} /\ Login(a) \subseteq {k}
        /\ employees' = [employees EXCEPT ![k] =
                IF ~Employed(k) THEN [work |-> a, functional |-> FALSE]
                ELSE IF a # Absent THEN [@ EXCEPT !.work = a] ELSE @]
        /\ users' = [users EXCEPT ![k] =
                IF ~HasUser(k) THEN Account(a, "unset", ~exited)
                ELSE [@ EXCEPT !.login = login, !.active = @ /\ ~exited]]
        /\ IF relists THEN Relist(k, p) ELSE UNCHANGED listed
        /\ proved' = IF relists THEN proved \ {<<p, k>>} ELSE proved
        /\ SignOut(IF exited /\ users[k].active THEN {k} ELSE {})
        /\ Act

IdentityNext ==
    \/ \E a \in Address :
        \/ GoogleLogin(a) \/ Leave(a)
        \/ SubmitSession(a) \/ SubmitPersonal(a)
        \/ CommitSession(a) \/ CommitPersonal(a) \/ CommitNew(a)
        \/ \E k \in Code : SubmitNew(a, k) \/ Link(k, a) \/ SetPersonal(k, a)
    \/ \E k \in Code :
        \/ ChangePin(k) \/ RemovePersonal(k)
        \/ \E pin \in {"unset", "issued"} : ResetPin(k, pin)
        \/ \E active, admin \in BOOLEAN : Switch(k, active, admin)
        \/ \E admin \in BOOLEAN : ProvisionByCode(k, admin)
        \/ \E a \in Company \cup {Absent} :
            \/ SetOfficial(k, a)
            \/ \E p \in MaybeAddress \ {a}, exited \in BOOLEAN : SheetRow(k, a, p, exited)
        \/ \E a \in MaybeAddress : EditWork(k, a) \/ CreateEmployee(k, a) \/ CreatePerson(k, a)
        \/ \E a \in Company, active, admin, reset \in BOOLEAN : Roster(k, a, active, admin, reset)

IdentitySpec == IdentityInit /\ [][IdentityNext]_identityVars

-----------------------------------------------------------------------------
(* Properties                                                              *)

IdentityTypeOK ==
    /\ employees \in [Code -> Employee \cup {NoEmployee}]
    /\ users \in [Code -> UserRow \cup {NoUser}]
    /\ listed \in [Address -> [owner : Code \cup {Absent}, verified : BOOLEAN]]
    /\ \A k \in Code : HasUser(k) => Employed(k)
    /\ \A k \in Code : Cardinality(Personal(k)) <= 1 /\ (Personal(k) # {} => HasUser(k))

\* onboarding.py:12-14, "a personal Gmail signs in only if the sheet lists it for that person
\* AND the person types the matching employee code the first time": since it was listed for
\* this account, through lists that change hands, cookies that have become old and accounts
\* switched off and on; the exception is an address that went to another account while the
\* confirm step was at work on it, for that step verifies whatever row has the address.
VerifiedByCode == \A a \in Address \ crossed :
    listed[a].verified => <<a, listed[a].owner>> \in proved

\* routers/auth.py:736-737, a PIN its owner chose is "never overwritten by whoever holds the
\* personal address", nor by an onboarding session that has become old, unless the PIN was
\* changed between the read and the commit of that very step.
OwnPinStands == lost \subseteq overlapped

\* onboarding.py:6, "One MM OS account per person": an address signs in one account.  It does
\* not hold: linking an address, the sheet's official address, a new person and a roster do
\* not look at the personal addresses.
OneAccountPerAddress == \A a \in Address :
    Cardinality(Login(a) \cup (IF listed[a].verified THEN {listed[a].owner} ELSE {})) <= 1
================================================================================
