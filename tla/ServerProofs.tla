----------------------------- MODULE ServerProofs -----------------------------
(***************************************************************************)
(* Proofs about Server, for any number of slots, tokens, hosts, passwords  *)
(* and invocations: its types, that failed attempts to log in cost tokens, *)
(* that what is protected is given only to who has proved a password,      *)
(* where the address comes from, which websockets are let in, and what     *)
(* logging in and out do to the cookies of a browser.                      *)
(***************************************************************************)
EXTENDS Server, SequenceTheorems, WellFoundedInduction, TLAPS

\* A nonempty set of numbers has a smallest one.
LEMMA MinIsLeast ==
  ASSUME NEW S \in SUBSET Nat, S # {}
  PROVE  Min(S) \in S /\ \A y \in S : Min(S) <= y
<1> DEFINE below == OpToRel(<, Nat)
<1> HIDE DEF below
<1>1. PICK x \in S : \A y \in S : ~ (<<y, x>> \in below)
  BY NatLessThanWellFounded, WFMin DEF below
<1>2. ASSUME NEW y \in S
      PROVE  x <= y
  <2>1. x \in Nat /\ y \in Nat
    OBVIOUS
  <2>2. y < x => <<y, x>> \in below
    BY <2>1 DEF below, OpToRel
  <2> QED
    BY <1>1, <2>1, <2>2
<1> QED
  BY <1>2 DEF Min

\* An attempt that has overlapped no other is the only one under way, and
\* there is still the token for which it was let in.
AloneIsCovered ==
  \A s \in Slot : attempts[s] # NoAttempt /\ ~attempts[s].crowded =>
    /\ \A t \in Slot \ {s} : attempts[t] = NoAttempt
    /\ minute >= 1 \/ hour >= 1

IInv == TypeOK /\ AloneIsCovered

\* The invariant holds at first.
LEMMA InitIInv == Init => IInv
  BY TokensAssumption DEF Init, IInv, TypeOK, AloneIsCovered

\* A new process has no attempt under way.
LEMMA FreshIInv ==
  ASSUME FreshLogin, phase' \in {"down", "invoked", "up"}
  PROVE  IInv'
  BY TokensAssumption DEF FreshLogin, IInv, TypeOK, AloneIsCovered

\* An attempt that begins beside others crowds them and itself.
LEMMA LoginBeginsIInv ==
  ASSUME IInv, NEW s \in Slot, NEW host \in Host, NEW password \in Password,
         LoginBegins(s, host, password)
  PROVE  IInv'
<1> DEFINE others == {t \in Slot : attempts[t] # NoAttempt}
<1>1. /\ attempts[s] = NoAttempt /\ CanTry /\ phase' = phase
      /\ UNCHANGED <<minuteVars, hourVars>>
      /\ attempts' = [t \in Slot |->
           IF t = s THEN [host |-> host, password |-> password, crowded |-> others # {}]
           ELSE IF t \in others THEN [attempts[t] EXCEPT !.crowded = TRUE]
           ELSE NoAttempt]
  BY DEF LoginBegins
<1>2. (others # {}) \in BOOLEAN
  OBVIOUS
<1>3. ASSUME NEW t \in others
      PROVE  /\ [attempts[t] EXCEPT !.crowded = TRUE] \in Attempt
             /\ [attempts[t] EXCEPT !.crowded = TRUE].crowded
  BY <1>3 DEF IInv, TypeOK, Attempt
<1>4. [host |-> host, password |-> password, crowded |-> others # {}] \in Attempt
  BY <1>2 DEF Attempt
<1>5. attempts' \in [Slot -> {NoAttempt} \cup Attempt]
  BY <1>1, <1>3, <1>4
<1>6. TypeOK'
  BY <1>1, <1>5 DEF IInv, TypeOK, minuteVars, hourVars
<1>7. ASSUME NEW u \in Slot, attempts'[u] # NoAttempt, ~attempts'[u].crowded
      PROVE  others = {} /\ u = s
  BY <1>1, <1>3, <1>7
<1>8. others = {} => \A t \in Slot \ {s} : attempts'[t] = NoAttempt
  BY <1>1
<1>9. minute' >= 1 \/ hour' >= 1
  BY <1>1 DEF CanTry, minuteVars, hourVars
<1>10. AloneIsCovered'
  BY <1>7, <1>8, <1>9 DEF AloneIsCovered
<1> QED
  BY <1>6, <1>10 DEF IInv

\* An attempt that ends alone leaves none behind; beside it all are crowded.
LEMMA LoginEndsIInv ==
  ASSUME IInv, NEW s \in Slot, LoginEnds(s)
  PROVE  IInv'
<1>1. /\ attempts[s] # NoAttempt /\ attempts' = [attempts EXCEPT ![s] = NoAttempt]
      /\ phase' = phase
  BY DEF LoginEnds
<1>2. UNCHANGED <<minuteVars, hourVars>> \/ RemoveToken
  BY DEF LoginEnds
<1>3. /\ minute \in 0 .. MinuteTokens /\ hour \in 0 .. HourTokens
      /\ minuteUsed \in 0 .. MinuteTokens /\ hourUsed \in 0 .. HourTokens
  BY DEF IInv, TypeOK
<1>4. /\ minute' \in 0 .. MinuteTokens /\ hour' \in 0 .. HourTokens
      /\ minuteUsed' \in 0 .. MinuteTokens /\ hourUsed' \in 0 .. HourTokens
  BY <1>2, <1>3, TokensAssumption
     DEF RemoveToken, TakeOfMinute, MinuteGives, HourGives, minuteVars, hourVars
<1>5. TypeOK'
  BY <1>1, <1>4 DEF IInv, TypeOK
<1>6. ASSUME NEW u \in Slot, attempts'[u] # NoAttempt, ~attempts'[u].crowded
      PROVE  FALSE
  <2>1. u # s /\ attempts[u] # NoAttempt /\ ~attempts[u].crowded
    BY <1>1, <1>6 DEF IInv, TypeOK
  <2> QED
    BY <1>1, <2>1 DEF IInv, AloneIsCovered
<1> QED
  BY <1>5, <1>6 DEF IInv, AloneIsCovered

\* Tokens only drip in, and the end of an interval touches no bucket.
LEMMA DripsIInv ==
  ASSUME IInv, MinuteDrips \/ HourDrips \/ MinuteEnds \/ HourEnds
  PROVE  IInv'
<1>1. /\ attempts' = attempts /\ phase' = phase
      /\ minute' >= minute /\ hour' >= hour
      /\ minute' \in 0 .. MinuteTokens /\ hour' \in 0 .. HourTokens
      /\ minuteUsed' \in 0 .. MinuteTokens /\ hourUsed' \in 0 .. HourTokens
  BY TokensAssumption
     DEF IInv, TypeOK, MinuteDrips, HourDrips, MinuteEnds, HourEnds, minuteVars, hourVars
<1>2. TypeOK'
  BY <1>1 DEF IInv, TypeOK
<1>3. minute \in Nat /\ hour \in Nat /\ minute' \in Nat /\ hour' \in Nat
  BY <1>1, TokensAssumption DEF IInv, TypeOK
<1>4. minute >= 1 \/ hour >= 1 => minute' >= 1 \/ hour' >= 1
  BY <1>1, <1>3
<1>5. AloneIsCovered'
  BY <1>1, <1>4 DEF IInv, AloneIsCovered
<1> QED
  BY <1>2, <1>5 DEF IInv

\* What leaves the attempts and the tokens alone keeps the invariant.
LEMMA FrameIInv ==
  ASSUME IInv, UNCHANGED loginVars, phase' \in {"down", "invoked", "up"}
  PROVE  IInv'
  BY DEF IInv, TypeOK, AloneIsCovered, loginVars

\* Every step keeps the invariant.
LEMMA NextIInv == IInv /\ [Next]_vars => IInv'
<1> SUFFICES ASSUME IInv, [Next]_vars
             PROVE  IInv'
  OBVIOUS
<1>1. ASSUME NEW words \in Invocation, Invoke(words)
      PROVE  IInv'
  BY <1>1, FrameIInv DEF Invoke
<1>2. CASE Serve
  BY <1>2, FrameIInv DEF Serve
<1>3. CASE DoOtherwise
  BY <1>3, FrameIInv DEF DoOtherwise
<1>4. CASE Relaunch \/ Stop
  <2>1. FreshLogin /\ phase' \in {"down", "invoked", "up"}
    BY <1>4 DEF Relaunch, Stop, IInv, TypeOK
  <2> QED
    BY <2>1, FreshIInv
<1>5. ASSUME NEW s \in Slot, NEW host \in Host, NEW password \in Password,
             LoginBegins(s, host, password)
      PROVE  IInv'
  BY <1>5, LoginBeginsIInv
<1>6. ASSUME NEW s \in Slot, LoginEnds(s)
      PROVE  IInv'
  BY <1>6, LoginEndsIInv
<1>7. ASSUME NEW host \in Host, Logout(host)
      PROVE  IInv'
  <2>1. UNCHANGED loginVars /\ phase' \in {"down", "invoked", "up"}
    BY <1>7 DEF Logout, loginVars, IInv, TypeOK
  <2> QED
    BY <2>1, FrameIInv
<1>8. CASE MinuteDrips \/ HourDrips \/ MinuteEnds \/ HourEnds
  BY <1>8, DripsIInv
<1>9. CASE UNCHANGED vars
  <2>1. UNCHANGED loginVars /\ phase' \in {"down", "invoked", "up"}
    BY <1>9 DEF vars, loginVars, IInv, TypeOK
  <2> QED
    BY <2>1, FrameIInv
<1> QED
  BY <1>1, <1>2, <1>3, <1>4, <1>5, <1>6, <1>7, <1>8, <1>9 DEF Next

\* The phase, the attempts and the tokens have the values that the code
\* gives them.
THEOREM TypeCorrect == Spec => []TypeOK
<1>1. IInv => TypeOK
  BY DEF IInv
<1> QED
  BY <1>1, InitIInv, NextIInv, PTL DEF Spec

\* A failed attempt that overlapped no other costs exactly one token of the
\* two buckets, and a right one none, unless both have given out what they may in
\* their interval.
THEOREM FailuresCost == Spec => FailureCosts
<1> DEFINE valid(s) == HandlePasswordValidation(args, attempts[s].password).valid
           Cost(s) == IF valid(s) THEN UNCHANGED <<minuteVars, hourVars>>
                      ELSE \/ attempts[s].crowded
                           \/ minute' + hour' = minute + hour - 1
                           \/ minute + hour >= 1 /\ AllGivenOut
<1>1. IInv /\ [Next]_vars => [\A s \in Slot : LoginEnds(s) => Cost(s)]_vars
  <2> SUFFICES ASSUME IInv, NEW s \in Slot, LoginEnds(s)
               PROVE  Cost(s)
    OBVIOUS
  <2>1. minute \in Nat /\ hour \in Nat
    BY TokensAssumption DEF IInv, TypeOK
  <2>2. valid(s) => UNCHANGED <<minuteVars, hourVars>>
    BY DEF LoginEnds
  <2>3. ~valid(s) => RemoveToken
    BY DEF LoginEnds
  <2>4. attempts[s] # NoAttempt
    BY DEF LoginEnds
  <2>5. ~attempts[s].crowded => minute >= 1 \/ hour >= 1
    BY <2>4 DEF IInv, AloneIsCovered
  <2>6. RemoveToken /\ ~AllGivenOut => minute' + hour' = minute + hour - 1
    BY <2>1 DEF RemoveToken, TakeOfMinute, AllGivenOut, minuteVars, hourVars
  <2>7. CASE valid(s)
    BY <2>2, <2>7
  <2>8. CASE ~valid(s)
    BY <2>1, <2>3, <2>5, <2>6, <2>8
  <2> QED
    BY <2>7, <2>8
<1> QED
  BY <1>1, InitIInv, NextIInv, PTL DEF Spec, FailureCosts

----------------------------------------------------------------------------
(* Earned access.                                                          *)

\* Whoever is in this jar of cookies was proved, and nothing blank ever is.
JarEarned ==
  \E S : jar \in Seq(S) /\ \A c \in S : c.value.of \in proved

NothingBlank ==
  /\ "" \notin proved
  /\ \A s \in Slot : attempts[s] # NoAttempt => attempts[s].password # ""

EInv == TypeOK /\ NothingBlank /\ JarEarned

Accepted == \E p \in proved : HandlePasswordValidation(args, p).valid

\* The first handler that does not pass is one of them.
LEMMA FirstIsOne ==
  ASSUME NEW answers, NEW n \in Nat \ {0}, DOMAIN answers = 1 .. n, answers[n] # Pass
  PROVE  \E i \in 1 .. n : FirstOf(answers) = answers[i]
<1> DEFINE I == {i \in DOMAIN answers : answers[i] # Pass}
<1>1. I \in SUBSET Nat /\ I # {}
  OBVIOUS
<1>2. Min(I) \in I
  BY <1>1, MinIsLeast
<1> QED
  BY <1>2 DEF FirstOf

\* A right password yields a cookie that names it.
LEMMA CookieNames ==
  ASSUME NEW password, HandlePasswordValidation(args, password).valid
  PROVE  HandlePasswordValidation(args, password).cookie.of = password
<1>1. PasswordMethod(args) \in {"PLAIN_TEXT", "ARGON2", "SHA256"}
  BY DEF PasswordMethod
<1>2. CASE PasswordMethod(args) = "PLAIN_TEXT"
  BY <1>2 DEF HandlePasswordValidation, Argon2
<1>3. CASE PasswordMethod(args) = "SHA256"
  BY <1>3 DEF HandlePasswordValidation
<1>4. CASE PasswordMethod(args) = "ARGON2"
  BY <1>4 DEF HandlePasswordValidation, IsHashMatch
<1> QED
  BY <1>1, <1>2, <1>3, <1>4

\* A cookie that the server takes names a password that it takes.
LEMMA ValidNames ==
  ASSUME NEW cookie, IsCookieValid(args, cookie), cookie.of # ""
  PROVE  HandlePasswordValidation(args, cookie.of).valid
<1>1. PasswordMethod(args) \in {"PLAIN_TEXT", "ARGON2", "SHA256"}
  BY DEF PasswordMethod
<1>2. CASE PasswordMethod(args) = "PLAIN_TEXT"
  BY <1>2 DEF HandlePasswordValidation, IsCookieValid, IsHashMatch, Value
<1>3. CASE PasswordMethod(args) = "SHA256"
  BY <1>3 DEF HandlePasswordValidation, IsCookieValid
<1>4. CASE PasswordMethod(args) = "ARGON2"
  BY <1>4 DEF HandlePasswordValidation, IsCookieValid, IsHashMatch, PasswordMethod
<1> QED
  BY <1>1, <1>2, <1>3, <1>4

\* Without a cookie nobody is in.
LEMMA NoHashIsInvalid == ~IsCookieValid(args, NoHash)
  BY DEF IsCookieValid, IsHashMatch, NoHash

\* Whoever is authenticated at a host has proved a password that is accepted.
LEMMA InIsEarned ==
  ASSUME EInv, NEW host, IsCookieValid(args, CookieFor(jar, host))
  PROVE  Accepted
<1> DEFINE sent == {i \in DOMAIN jar : Applies(jar[i], host)}
<1>1. PICK S : jar \in Seq(S) /\ \A c \in S : c.value.of \in proved
  BY DEF EInv, JarEarned
<1>2. sent # {}
  BY NoHashIsInvalid DEF CookieFor
<1>3. sent \in SUBSET Nat
  BY <1>1
<1>4. Min(sent) \in sent
  BY <1>2, <1>3, MinIsLeast
<1>5. CookieFor(jar, host) = jar[Min(sent)].value
  BY <1>2 DEF CookieFor
<1>6. jar[Min(sent)] \in S
  BY <1>1, <1>4
<1>7. CookieFor(jar, host).of \in proved
  BY <1>1, <1>5, <1>6
<1>8. CookieFor(jar, host).of # ""
  BY <1>7 DEF EInv, NothingBlank
<1> QED
  BY <1>7, <1>8, ValidNames DEF Accepted

\* Every handler gives what is behind the password only to whoever is in,
\* or to a preflight that is exempt.
LEMMA AnswersAreGuarded ==
  ASSUME NEW r, Answer(args, r) \in Protected
  PROVE  \/ Authenticated(args, r)
         \/ Preflight(args, r) /\ r.place \in {"proxy", "absproxy"}
<1> DEFINE answers ==
      <<TlsAnswer(args, r), PublicAnswer(r), DomainProxyAnswer(args, r),
        PathProxyAnswer(args, r), StaticAnswer(r), HealthAnswer(r),
        LoginAnswer(args, r), UpdateAnswer(args, r), PageAnswer(args, r),
        ManifestAnswer(r), MintKeyAnswer(r), CodeAnswer(args, r)>>
<1> DEFINE goal == \/ Authenticated(args, r)
                   \/ Preflight(args, r) /\ r.place \in {"proxy", "absproxy"}
<1>1. answers[12] # Pass
  BY DEF CodeAnswer, Pass
<1>2. DOMAIN answers = 1 .. 12
  OBVIOUS
<1>3. Answer(args, r) = FirstOf(answers)
  BY DEF Answer
<1> HIDE DEF answers
<1>4. PICK i \in 1 .. 12 : FirstOf(answers) = answers[i]
  <2>1. 12 \in Nat \ {0}
    OBVIOUS
  <2> QED
    BY <1>1, <1>2, <2>1, FirstIsOne, Zenon
<1>5. answers[i] \in Protected
  BY <1>3, <1>4
<1>6. answers[i] \in
        {TlsAnswer(args, r), PublicAnswer(r), DomainProxyAnswer(args, r),
         PathProxyAnswer(args, r), StaticAnswer(r), HealthAnswer(r),
         LoginAnswer(args, r), UpdateAnswer(args, r), PageAnswer(args, r),
         ManifestAnswer(r), MintKeyAnswer(r), CodeAnswer(args, r)}
  BY DEF answers
<1>7. DomainProxyAnswer(args, r) \in Protected => goal
  BY DEF DomainProxyAnswer, Protected, Pass
<1>8. PathProxyAnswer(args, r) \in Protected => goal
  BY DEF PathProxyAnswer, Protected, Pass
<1>9. UpdateAnswer(args, r) \in Protected => goal
  BY DEF UpdateAnswer, Protected, Pass
<1>10. CodeAnswer(args, r) \in Protected => goal
  BY DEF CodeAnswer, Protected
<1>11. /\ TlsAnswer(args, r) \notin Protected /\ PublicAnswer(r) \notin Protected
       /\ StaticAnswer(r) \notin Protected /\ HealthAnswer(r) \notin Protected
       /\ ManifestAnswer(r) \notin Protected /\ MintKeyAnswer(r) \notin Protected
  BY DEF TlsAnswer, PublicAnswer, StaticAnswer, HealthAnswer, ManifestAnswer,
         MintKeyAnswer, Protected, Pass
<1>12. LoginAnswer(args, r) \notin Protected /\ PageAnswer(args, r) \notin Protected
  BY DEF LoginAnswer, PageAnswer, Protected, Pass
<1> HIDE DEF goal
<1>13. goal
  BY <1>5, <1>6, <1>7, <1>8, <1>9, <1>10, <1>11, <1>12
<1> QED
  BY <1>13 DEF goal

\* No websocket is opened to what is behind the password without it.
LEMMA SocketsAreGuarded ==
  ASSUME NEW r, SocketAnswer(args, r) \in Protected
  PROVE  Authenticated(args, r)
<1> DEFINE answers == <<DomainSocketAnswer(args, r), PathSocketAnswer(args, r),
                        HealthSocketAnswer(r), Admitted(args, r, "code")>>
<1>1. answers[4] # Pass
  BY DEF Admitted, Pass
<1>2. DOMAIN answers = 1 .. 4
  OBVIOUS
<1>3. SocketAnswer(args, r) = FirstOf(answers)
  BY DEF SocketAnswer
<1> HIDE DEF answers
<1>4. PICK i \in 1 .. 4 : FirstOf(answers) = answers[i]
  <2>1. 4 \in Nat \ {0}
    OBVIOUS
  <2> QED
    BY <1>1, <1>2, <2>1, FirstIsOne, Zenon
<1>5. answers[i] \in Protected
  BY <1>3, <1>4
<1>6. answers[i] \in {DomainSocketAnswer(args, r), PathSocketAnswer(args, r),
                      HealthSocketAnswer(r), Admitted(args, r, "code")}
  BY DEF answers
<1>7. \A answer : Admitted(args, r, answer) \in Protected => Authenticated(args, r)
  BY DEF Admitted, Protected
<1>8. DomainSocketAnswer(args, r) \in Protected => Authenticated(args, r)
  BY <1>7 DEF DomainSocketAnswer, Protected, Pass
<1>9. PathSocketAnswer(args, r) \in Protected => Authenticated(args, r)
  BY <1>7 DEF PathSocketAnswer, Protected, Pass
<1>10. HealthSocketAnswer(r) \notin Protected
  BY DEF HealthSocketAnswer, Protected, Pass
<1> QED
  BY <1>5, <1>6, <1>7, <1>8, <1>9, <1>10

\* A cookie that comes into the jar is in it alone or keeps what is there.
LEMMA StoredIsSeq ==
  ASSUME NEW S, jar \in Seq(S), NEW host, NEW value,
         Cookie(host, value) \in S
  PROVE  Stored(host, value) \in Seq(S)
  BY DEF Stored

\* What leaves the jar leaves the rest of it.
LEMMA ClearedIsSeq ==
  ASSUME NEW S, jar \in Seq(S), NEW host
  PROVE  Cleared(host) \in Seq(S)
<1> DEFINE old == Cookie(host, NoHash)
           found == {i \in DOMAIN jar : SameCookie(jar[i], old)}
<1>1. CASE found = {}
  BY <1>1 DEF Cleared, Without
<1>2. CASE found # {}
  <2>1. found \in SUBSET Nat
    OBVIOUS
  <2>2. Min(found) \in found
    BY <1>2, <2>1, MinIsLeast
  <2>3. Min(found) \in 1 .. Len(jar)
    BY <2>2
  <2>4. Cleared(host) = RemoveAt(jar, Min(found))
    BY <1>2 DEF Cleared, Without
  <2> HIDE DEF found
  <2>5. RemoveAt(jar, Min(found)) \in Seq(S)
    BY <2>3 DEF RemoveAt
  <2> QED
    BY <2>4, <2>5
<1> QED
  BY <1>1, <1>2

\* At first nobody is proved and the jar is empty.
LEMMA InitEInv == Init => EInv
<1> SUFFICES ASSUME Init PROVE EInv
  OBVIOUS
<1>1. TypeOK
  BY InitIInv DEF IInv
<1>2. jar \in Seq({}) /\ proved = {}
  BY DEF Init
<1>3. JarEarned
  BY <1>2 DEF JarEarned
<1>4. NothingBlank
  BY DEF Init, NothingBlank
<1> QED
  BY <1>1, <1>3, <1>4 DEF EInv

\* A step that leaves the jar, the proved ones and what is typed alone.
LEMMA FrameEInv ==
  ASSUME EInv, TypeOK', UNCHANGED <<jar, proved>>,
         \A s \in Slot : attempts'[s] # NoAttempt =>
           \/ attempts[s] # NoAttempt /\ attempts'[s].password = attempts[s].password
           \/ attempts'[s].password # ""
  PROVE  EInv'
<1>1. JarEarned'
  BY DEF EInv, JarEarned
<1>2. NothingBlank'
  BY DEF EInv, NothingBlank
<1> QED
  BY <1>1, <1>2 DEF EInv

\* Every step keeps the jar earned.
LEMMA NextEInv == IInv /\ EInv /\ [Next]_vars => EInv'
<1> SUFFICES ASSUME IInv, EInv, [Next]_vars
             PROVE  EInv'
  OBVIOUS
<1>1. TypeOK'
  BY NextIInv DEF IInv
<1>2. ASSUME NEW words \in Invocation, Invoke(words)
      PROVE  EInv'
  BY <1>1, <1>2, FrameEInv DEF Invoke, browserVars, loginVars
<1>3. CASE Serve
  BY <1>1, <1>3, FrameEInv DEF Serve, browserVars, loginVars
<1>4. CASE DoOtherwise
  BY <1>1, <1>4, FrameEInv DEF DoOtherwise, browserVars, loginVars
<1>5. CASE Relaunch \/ Stop
  <2>1. \A s \in Slot : attempts'[s] = NoAttempt
    BY <1>5 DEF Relaunch, Stop, FreshLogin
  <2> QED
    BY <1>1, <1>5, <2>1, FrameEInv DEF Relaunch, Stop, browserVars
<1>6. ASSUME NEW s \in Slot, NEW host \in Host, NEW password \in Password,
             LoginBegins(s, host, password)
      PROVE  EInv'
  <2>1. \A t \in Slot : attempts'[t] # NoAttempt =>
          \/ attempts[t] # NoAttempt /\ attempts'[t].password = attempts[t].password
          \/ attempts'[t].password # ""
    <3> SUFFICES ASSUME NEW t \in Slot, attempts'[t] # NoAttempt
                 PROVE  \/ attempts[t] # NoAttempt /\ attempts'[t].password = attempts[t].password
                        \/ attempts'[t].password # ""
      OBVIOUS
    <3>1. CASE t = s
      BY <1>6, <3>1 DEF LoginBegins
    <3>2. CASE t # s
      <4>1. attempts[t] # NoAttempt /\ attempts'[t] = [attempts[t] EXCEPT !.crowded = TRUE]
        BY <1>6, <3>2 DEF LoginBegins
      <4>2. attempts[t] \in Attempt
        BY <4>1 DEF IInv, TypeOK
      <4> QED
        BY <4>1, <4>2 DEF Attempt
    <3> QED
      BY <3>1, <3>2
  <2> QED
    BY <1>1, <1>6, <2>1, FrameEInv DEF LoginBegins, browserVars
<1>7. ASSUME NEW s \in Slot, LoginEnds(s)
      PROVE  EInv'
  <2> DEFINE result == HandlePasswordValidation(args, attempts[s].password)
             host == attempts[s].host
  <2>1. \A t \in Slot : attempts'[t] # NoAttempt =>
          attempts[t] # NoAttempt /\ attempts'[t].password = attempts[t].password
    BY <1>7 DEF LoginEnds, IInv, TypeOK
  <2>2. CASE ~result.valid
    BY <1>1, <1>7, <2>1, <2>2, FrameEInv DEF LoginEnds, browserVars
  <2>3. CASE result.valid
    <3>1. PICK S : jar \in Seq(S) /\ \A c \in S : c.value.of \in proved
      BY DEF EInv, JarEarned
    <3>2. result.cookie.of = attempts[s].password
      BY <2>3, CookieNames
    <3>3. proved' = proved \cup {attempts[s].password} /\ jar' = Stored(host, result.cookie)
      BY <1>7, <2>3 DEF LoginEnds
    <3> DEFINE new == Cookie(host, result.cookie)
               T == S \cup {new}
    <3>4. new.value = result.cookie
      BY DEF Cookie
    <3> HIDE DEF result, host
    <3>5. \A c \in T : c.value.of \in proved'
      BY <3>1, <3>2, <3>3, <3>4
    <3>6. jar \in Seq(T)
      BY <3>1
    <3>7. new \in T
      OBVIOUS
    <3> HIDE DEF new, T
    <3>8. Stored(host, result.cookie) \in Seq(T)
      BY <3>6, <3>7, StoredIsSeq DEF new
    <3>9. JarEarned'
      BY <3>3, <3>5, <3>8 DEF JarEarned
    <3>10. attempts[s].password # ""
      BY <1>7 DEF EInv, NothingBlank, LoginEnds
    <3>11. NothingBlank'
      BY <2>1, <3>3, <3>10 DEF EInv, NothingBlank
    <3> QED
      BY <1>1, <3>9, <3>11 DEF EInv
  <2> QED
    BY <2>2, <2>3
<1>8. ASSUME NEW host \in Host, Logout(host)
      PROVE  EInv'
  <2>1. PICK S : jar \in Seq(S) /\ \A c \in S : c.value.of \in proved
    BY DEF EInv, JarEarned
  <2>2. jar' = Cleared(host) /\ proved' = proved /\ attempts' = attempts
    BY <1>8 DEF Logout, loginVars
  <2>3. jar' \in Seq(S)
    BY <2>1, <2>2, ClearedIsSeq
  <2>4. JarEarned'
    BY <2>1, <2>2, <2>3 DEF JarEarned
  <2>5. NothingBlank'
    BY <2>2 DEF EInv, NothingBlank
  <2> QED
    BY <1>1, <2>4, <2>5 DEF EInv
<1>9. CASE MinuteDrips
  BY <1>1, <1>9, FrameEInv DEF MinuteDrips, browserVars
<1>10. CASE HourDrips
  BY <1>1, <1>10, FrameEInv DEF HourDrips, browserVars
<1>11. CASE MinuteEnds \/ HourEnds
  BY <1>1, <1>11, FrameEInv DEF MinuteEnds, HourEnds, browserVars
<1>12. CASE UNCHANGED vars
  BY <1>1, <1>12, FrameEInv DEF vars
<1> QED
  BY <1>2, <1>3, <1>4, <1>5, <1>6, <1>7, <1>8, <1>9, <1>10, <1>11, <1>12 DEF Next

\* What is behind the password is given only to a browser that has proved a
\* password which the running server accepts, but for an exempt preflight.
THEOREM AccessIsEarned == Spec => []EarnedAccess
<1>1. EInv => EarnedAccess
  <2> SUFFICES ASSUME EInv, args["auth"] # "none", ~Accepted,
                      NEW host \in Host, NEW r \in ManyRequests(host)
               PROVE  /\ Answer(args, r) \in Protected =>
                           /\ r.method = "OPTIONS" /\ r.place = "proxy"
                           /\ Has(args, "skip-auth-preflight")
                      /\ SocketAnswer(args, r) \notin Protected
    BY DEF EarnedAccess, Accepted
  <2> PICK m \in {"GET", "POST", "OPTIONS"},
           p \in {"root", "static", "login", "proxy", "update", "other"},
           headers \in {Direct(host), Hiding}, l \in BOOLEAN :
             r = [Request(m, p, host, headers) EXCEPT !.login = @ \/ l]
    BY DEF ManyRequests
  <2>1. r.cookie = CookieFor(jar, host)
    BY DEF Request
  <2>2. r.place # "absproxy"
    BY DEF Request
  <2>3. ~IsCookieValid(args, r.cookie)
    BY <2>1, InIsEarned
  <2>4. ~Authenticated(args, r)
    BY <2>3 DEF Authenticated
  <2>5. Answer(args, r) \in Protected =>
          Preflight(args, r) /\ r.place \in {"proxy", "absproxy"}
    BY <2>4, AnswersAreGuarded
  <2>6. SocketAnswer(args, r) \notin Protected
    BY <2>4, SocketsAreGuarded
  <2> QED
    BY <2>2, <2>5, <2>6 DEF Preflight
<1>2. Init => IInv /\ EInv
  BY InitIInv, InitEInv
<1>3. IInv /\ EInv /\ [Next]_vars => IInv' /\ EInv'
  BY NextIInv, NextEInv
<1> QED
  BY <1>1, <1>2, <1>3, PTL DEF Spec

----------------------------------------------------------------------------
(* The address.                                                            *)

\* What overrides a key, and what does not.
LEMMA AssignAbove ==
  ASSUME NEW below, NEW above, NEW key, Has(above, key)
  PROVE  Assign(below, above)[key] = above[key] /\ Has(Assign(below, above), key)
  BY DEF Assign, Has

LEMMA AssignBelow ==
  ASSUME NEW below, NEW above, NEW key, ~Has(above, key), Has(below, key)
  PROVE  Assign(below, above)[key] = below[key] /\ Has(Assign(below, above), key)
  BY DEF Assign, Has

\* The environment names neither the address nor a proxy domain.
LEMMA EnvNames ==
  ASSUME NEW env
  PROVE  \A key \in {"host", "port", "proxy-domain"} : ~Has(FromEnv(env), key)
<1> DEFINE words == {v \in DOMAIN EnvWords : Has(env, v)}
           flags == {v \in DOMAIN EnvFlags : Value(env, v, "") \in {"1", "true"}}
           wordArgs == [o \in {EnvWords[v] : v \in words} |->
                          env[CHOOSE v \in words : EnvWords[v] = o]]
           flagArgs == [o \in {EnvFlags[v] : v \in flags} |-> TRUE]
           idleArgs == IF Has(env, IdleVariable)
                         THEN With(NoArgs, "idle-timeout-seconds", NumberOf[env[IdleVariable]])
                         ELSE NoArgs
           keys == {"host", "port", "proxy-domain"}
<1>1. FromEnv(env) = Assign(Assign(wordArgs, flagArgs), idleArgs)
  BY DEF FromEnv
<1>2. \A v \in DOMAIN EnvWords : EnvWords[v] \notin keys
  BY DEF EnvWords
<1>3. \A v \in DOMAIN EnvFlags : EnvFlags[v] \notin keys
  BY DEF EnvFlags
<1>4. \A key \in keys : ~Has(wordArgs, key) /\ ~Has(flagArgs, key)
  BY <1>2, <1>3 DEF Has
<1>5. \A key \in keys : ~Has(idleArgs, key)
  BY DEF Has, With, NoArgs
<1> HIDE DEF wordArgs, flagArgs, idleArgs
<1> QED
  BY <1>1, <1>4, <1>5 DEF Assign, Has

\* The host, the port and the proxy domains that the defaults end up with.
LEMMA DefaultsOf ==
  ASSUME NEW cli, NEW config, NEW env
  PROVE  LET final == SetDefaults(cli, config, env).args
             addr == BindAddrFromAllSources(config, cli, env)
         IN  /\ final["host"] = addr.host
             /\ final["port"] = addr.port
             /\ final["proxy-domain"] =
                  ProxyDomains(Value(Assign(config, cli), "proxy-domain", <<>>))
             /\ Has(final, "proxy-domain")
<1> DEFINE said == Assign(config, cli)
           level == LogLevel(said, env)
           addr == BindAddrFromAllSources(config, cli, env)
           proxies == ProxyDomains(Value(said, "proxy-domain", <<>>))
           generated == Value(said, "cert", "none") \in {NoWord, ""}
           paths == Value(said, "_", <<>>)
           derived == [k \in {"host", "port", "proxy-domain", "_"} |->
                         CASE k = "host" -> addr.host
                           [] k = "port" -> addr.port
                           [] k = "proxy-domain" -> proxies
                           [] k = "_" -> [i \in DOMAIN paths |-> PathOf[paths[i]]]]
           logged == IF level = NoWord THEN NoArgs
                     ELSE [k \in {"log", "verbose"} |-> IF k = "log" THEN level ELSE level = "trace"]
           certs == IF generated THEN [k \in {"cert", "cert-key"} |-> "generated"] ELSE NoArgs
           over == Assign(Assign(derived, logged), certs)
           keys == {"host", "port", "proxy-domain"}
<1>1. \E under : SetDefaults(cli, config, env).args = Assign(Assign(under, over), FromEnv(env))
  BY DEF SetDefaults
<1>2. \A key \in keys : Has(derived, key) /\ ~Has(logged, key) /\ ~Has(certs, key)
  BY DEF Has, NoArgs
<1>3. /\ derived["host"] = addr.host
      /\ derived["port"] = addr.port
      /\ derived["proxy-domain"] = proxies
  OBVIOUS
<1> HIDE DEF derived, logged, certs
<1>4. \A key \in keys : over[key] = derived[key] /\ Has(over, key)
  BY <1>2, AssignBelow
<1> HIDE DEF over
<1>5. \A key \in keys : /\ SetDefaults(cli, config, env).args[key] = over[key]
                        /\ Has(SetDefaults(cli, config, env).args, key)
  BY <1>1, <1>4, EnvNames, AssignAbove, AssignBelow
<1> QED
  BY <1>3, <1>4, <1>5

\* What an invocation that serves does it with.
LEMMA ServedArgs ==
  ASSUME NEW words, EntryOf(words).does = "serve"
  PROVE  EntryOf(words).args =
           SetDefaults(Parse(words.argv, FALSE).args, ParseConfigFile(words.file).args,
                       words.env).args
<1> DEFINE cli == Parse(words.argv, FALSE)
           config == ParseConfigFile(words.file)
           defaults == SetDefaults(cli.args, config.args, words.env)
<1> HIDE DEF cli, config, defaults
<1>1. Failure.does # "serve"
  BY DEF Failure
<1>2. EntryOf(words) = EntryParsed(cli, config, words.env, words.world)
  BY DEF EntryOf, Entry, cli, config
<1>3. EntryOf(words) = EntryWith(cli.args, defaults, words.world)
  BY <1>1, <1>2 DEF EntryParsed, defaults
<1>4. EntryOf(words) = Decide(cli.args, defaults.args,
              ConsumeByokBootstrapFile(words.world.catalogue, defaults.env), words.world)
  BY <1>1, <1>3 DEF EntryWith
<1> QED
  BY <1>4 DEF Decide, cli, config, defaults

\* The two rounds of overwriting give every source its place.
LEMMA RoundsArePrecedence ==
  ASSUME NEW config, NEW cli, NEW env
  PROVE  LET bound(from) == AddressOf[from["bind-addr"]]
             boundPort(from) == IF bound(from).port = NoWord THEN 80 ELSE bound(from).port
         IN  /\ BindAddrFromAllSources(config, cli, env).host =
                  IF Has(cli, "host") THEN cli["host"]
                  ELSE IF Has(env, "CODE_SERVER_HOST") THEN env["CODE_SERVER_HOST"]
                  ELSE IF Has(cli, "bind-addr") THEN bound(cli).host
                  ELSE IF Has(config, "host") THEN config["host"]
                  ELSE IF Has(config, "bind-addr") THEN bound(config).host ELSE "localhost"
             /\ BindAddrFromAllSources(config, cli, env).port =
                  IF Has(cli, "port") THEN cli["port"]
                  ELSE IF Has(env, "PORT") THEN IntOf[env["PORT"]]
                  ELSE IF Has(cli, "bind-addr") THEN boundPort(cli)
                  ELSE IF Has(config, "port") THEN config["port"]
                  ELSE IF Has(config, "bind-addr") THEN boundPort(config) ELSE 8080
<1>1. \A addr, from :
        /\ BindAddrFromArgs(addr, from, env).host =
             IF Has(from, "host") THEN from["host"]
             ELSE IF Has(env, "CODE_SERVER_HOST") THEN env["CODE_SERVER_HOST"]
             ELSE IF Has(from, "bind-addr") THEN AddressOf[from["bind-addr"]].host ELSE addr.host
        /\ BindAddrFromArgs(addr, from, env).port =
             IF Has(from, "port") THEN from["port"]
             ELSE IF Has(env, "PORT") THEN IntOf[env["PORT"]]
             ELSE IF Has(from, "bind-addr")
               THEN IF AddressOf[from["bind-addr"]].port = NoWord THEN 80
                    ELSE AddressOf[from["bind-addr"]].port
             ELSE addr.port
  BY DEF BindAddrFromArgs, Value
<1> QED
  BY <1>1 DEF BindAddrFromAllSources

\* The host and the port of a server come from the first of its sources that
\* names them, for every command line, configuration and environment.
THEOREM AddressHasPrecedence == Spec => []AddressPrecedence
<1>1. AddressPrecedence
  <2> SUFFICES ASSUME EntryOf(given).does = "serve"
               PROVE  AddressPrecedence
    BY DEF AddressPrecedence
  <2> DEFINE cli == Parse(given.argv, FALSE).args
             config == ParseConfigFile(given.file).args
             addr == BindAddrFromAllSources(config, cli, given.env)
  <2>1. EntryOf(given).args = SetDefaults(cli, config, given.env).args
    BY ServedArgs
  <2> HIDE DEF cli, config
  <2>2. EntryOf(given).args["host"] = addr.host /\ EntryOf(given).args["port"] = addr.port
    BY <2>1, DefaultsOf
  <2> HIDE DEF addr
  <2>3. EntryOf(given).args["host"] =
          IF Has(cli, "host") THEN cli["host"]
          ELSE IF Has(given.env, "CODE_SERVER_HOST") THEN given.env["CODE_SERVER_HOST"]
          ELSE IF Has(cli, "bind-addr") THEN AddressOf[cli["bind-addr"]].host
          ELSE IF Has(config, "host") THEN config["host"]
          ELSE IF Has(config, "bind-addr") THEN AddressOf[config["bind-addr"]].host
          ELSE "localhost"
    BY <2>2, RoundsArePrecedence DEF addr
  <2> DEFINE boundPort(from) == IF AddressOf[from["bind-addr"]].port = NoWord THEN 80
                                ELSE AddressOf[from["bind-addr"]].port
  <2>4. EntryOf(given).args["port"] =
          IF Has(cli, "port") THEN cli["port"]
          ELSE IF Has(given.env, "PORT") THEN IntOf[given.env["PORT"]]
          ELSE IF Has(cli, "bind-addr") THEN boundPort(cli)
          ELSE IF Has(config, "port") THEN config["port"]
          ELSE IF Has(config, "bind-addr") THEN boundPort(config) ELSE 8080
    BY <2>2, RoundsArePrecedence DEF addr
  <2> QED
    BY <2>3, <2>4 DEF AddressPrecedence, cli, config
<1> QED
  BY <1>1, PTL DEF Spec

----------------------------------------------------------------------------
(* Origins.                                                                *)

\* The answer to a websocket for a path that is neither of the proxy nor of
\* the health check: the proxy of the domain has it, or the editor.
LEMMA OtherSocketAnswer ==
  ASSUME NEW r, r.place = "other"
  PROVE  SocketAnswer(args, r) =
           IF MaybeProxy(args, r) THEN DomainSocketAnswer(args, r) ELSE Admitted(args, r, "code")
<1> DEFINE answers == <<DomainSocketAnswer(args, r), PathSocketAnswer(args, r),
                        HealthSocketAnswer(r), Admitted(args, r, "code")>>
           I == {i \in DOMAIN answers : answers[i] # Pass}
<1>1. SocketAnswer(args, r) = answers[Min(I)]
  BY DEF SocketAnswer, FirstOf
<1>2. I \in SUBSET 1 .. 4
  OBVIOUS
<1>3. \A answer \in {"code", "proxied"} : Admitted(args, r, answer) # Pass
  BY DEF Admitted, Pass
<1>4. 2 \notin I /\ 3 \notin I /\ 4 \in I
  BY <1>3 DEF PathSocketAnswer, HealthSocketAnswer
<1>5. 1 \in I <=> MaybeProxy(args, r)
  BY <1>3 DEF DomainSocketAnswer, Pass
<1>6. answers[1] = DomainSocketAnswer(args, r) /\ answers[4] = Admitted(args, r, "code")
  OBVIOUS
<1> HIDE DEF I, answers
<1>7. Min(I) \in I /\ \A i \in I : Min(I) <= i
  BY <1>2, <1>4, MinIsLeast
<1>8. CASE MaybeProxy(args, r)
  <2>1. Min(I) = 1
    <3>1. 1 \in I
      BY <1>5, <1>8
    <3>2. Min(I) \in 1 .. 4 /\ Min(I) <= 1
      BY <1>2, <1>7, <3>1
    <3> QED
      BY <3>2
  <2> QED
    BY <1>1, <1>6, <1>8, <2>1
<1>9. CASE ~MaybeProxy(args, r)
  <2>1. Min(I) = 4
    <3>1. Min(I) # 1 /\ Min(I) # 2 /\ Min(I) # 3
      BY <1>4, <1>5, <1>7, <1>9
    <3>2. Min(I) \in 1 .. 4
      BY <1>2, <1>7
    <3> QED
      BY <3>1, <3>2
  <2> QED
    BY <1>1, <1>6, <1>9, <2>1
<1> QED
  BY <1>8, <1>9

\* A websocket of a page of another host is refused and one of the same host
\* or of a trusted one is not, in whichever header the host stands.
THEOREM OriginsDecide == Spec => []OriginDecides
<1>1. OriginDecides
  <2> SUFFICES ASSUME NEW host \in Host \cup Origin, NEW origin \in Origin,
                      NEW headers \in Naming(host),
                      NEW r, r = [Request("GET", "other", host, headers) EXCEPT !.origin = origin],
                      ProxyEnabled(args) \/ ~MaybeProxy(args, r)
               PROVE  SocketAnswer(args, r) = "403" <=>
                        /\ origin # host
                        /\ ~IsTrustedOrigin(origin, Value(args, "trusted-origins", <<>>))
    BY DEF OriginDecides
  <2>1. r.place = "other" /\ r.origin = origin
    BY DEF Request
  <2>2. GetHost(r) = host
    <3>1. /\ r.forwarded = headers.forwarded
          /\ r.xForwardedHost = headers.xForwardedHost
          /\ r.host = headers.host
      BY DEF Request
    <3>3. headers \in {[forwarded |-> NoHost, xForwardedHost |-> NoHost, host |-> host],
                       [forwarded |-> NoHost, xForwardedHost |-> host, host |-> Inner],
                       [forwarded |-> host, xForwardedHost |-> NoHost, host |-> Inner]}
      BY DEF Naming, Direct
    <3>2. \/ headers.forwarded = host
          \/ headers.forwarded = NoHost /\ headers.xForwardedHost = host
          \/ /\ headers.forwarded = NoHost /\ headers.xForwardedHost = NoHost
             /\ headers.host = host
      BY <3>3
    <3> QED
      BY <3>1, <3>2, HostsAssumption DEF GetHost
  <2>3. \A answer \in {"code", "proxied"} : Admitted(args, r, answer) = "403" <=> ~SameOrigin(args, r)
    BY DEF Admitted
  <2>4. SocketAnswer(args, r) = "403" <=> ~SameOrigin(args, r)
    BY <2>1, <2>3, OtherSocketAnswer DEF DomainSocketAnswer
  <2> QED
    BY <2>1, <2>2, <2>4, HostsAssumption DEF SameOrigin
<1> QED
  BY <1>1, PTL DEF Spec

----------------------------------------------------------------------------
(* Folds over sequences.                                                   *)

\* A nonempty set of positions has a last one.
LEMMA MaxIsGreatest ==
  ASSUME NEW n \in Nat, NEW S \in SUBSET (1 .. n), S # {}
  PROVE  Max(S) \in S /\ \A y \in S : Max(S) >= y
<1> DEFINE T == {n - x : x \in S}
<1>1. T \in SUBSET Nat /\ T # {}
  <2>1. \A x \in S : n - x \in Nat
    OBVIOUS
  <2> QED
    BY <2>1
<1>2. Min(T) \in T /\ \A y \in T : Min(T) <= y
  BY <1>1, MinIsLeast
<1>3. PICK x \in S : Min(T) = n - x
  BY <1>2
<1>4. ASSUME NEW y \in S
      PROVE  x >= y
  <2>1. n - x <= n - y
    BY <1>2, <1>3
  <2> QED
    BY <2>1
<1> QED
  BY <1>4 DEF Max

\* What holds of no positions, and of some if it holds without the last of
\* them, holds of all: the induction that a fold over a sequence follows.
LEMMA ByTheLast ==
  ASSUME NEW n \in Nat, NEW D, {} \in D,
         \A S \in SUBSET (1 .. n) : S # {} /\ S \ {Max(S)} \in D => S \in D
  PROVE  SUBSET (1 .. n) \subseteq D
<1> DEFINE bad == {S \in SUBSET (1 .. n) : S \notin D}
           lasts == {Max(S) : S \in bad}
<1>1. SUFFICES ASSUME bad # {} PROVE FALSE
  OBVIOUS
<1>2. \A S \in bad : S # {} /\ S \in SUBSET (1 .. n) /\ Max(S) \in S
  BY MaxIsGreatest
<1>3. lasts \in SUBSET Nat /\ lasts # {}
  <2> HIDE DEF bad
  <2>1. ASSUME NEW S \in bad
        PROVE  Max(S) \in Nat
    <3>1. Max(S) \in 1 .. n
      BY <1>2
    <3> QED
      BY <3>1
  <2> QED
    BY <1>1, <2>1
<1>4. PICK S \in bad : Max(S) = Min(lasts)
  BY <1>3, MinIsLeast
<1> DEFINE R == S \ {Max(S)}
<1>5. R \in SUBSET (1 .. n) /\ R \in bad
  BY <1>2
<1>6. Max(R) \in R /\ R # {}
  BY <1>2, <1>5
<1>7. Max(R) <= Max(S) /\ Max(R) # Max(S)
  BY <1>2, <1>6, MaxIsGreatest
<1>9. Max(R) \in Nat /\ Max(S) \in Nat
  <2> HIDE DEF bad
  <2>1. Max(R) \in 1 .. n /\ Max(S) \in 1 .. n
    BY <1>2, <1>5
  <2> QED
    BY <2>1
<1>8. Max(S) <= Max(R)
  BY <1>3, <1>4, <1>5, MinIsLeast
<1> QED
  BY <1>7, <1>8, <1>9

\* What a fold of e does: it starts from base and goes from what it has and
\* the next element to what F says.
IsFold(h, A, F, base, n, e) ==
  /\ h \in [SUBSET (1 .. n) -> A]
  /\ h[{}] = base
  /\ \A S \in SUBSET (1 .. n) : S # {} => h[S] = F[<<h[S \ {Max(S)}], e[Max(S)]>>]

\* The recursive function of a fold exists, whatever is folded.
LEMMA FoldExists ==
  ASSUME NEW A, NEW B, NEW F \in [A \X B -> A], NEW base \in A,
         NEW n \in Nat, NEW e \in [1 .. n -> B]
  PROVE  \E h : IsFold(h, A, F, base, n, e)
<1> DEFINE bad == {m \in 0 .. n : ~ \E h : IsFold(h, A, F, base, m, e)}
<1>1. SUFFICES ASSUME bad # {} PROVE FALSE
  <2>1. n \in 0 .. n
    OBVIOUS
  <2> QED
    BY <2>1
<1>2. bad \in SUBSET Nat
  OBVIOUS
<1>3. PICK m \in bad : \A k \in bad : m <= k
  BY <1>1, <1>2, MinIsLeast
<1>4. m # 0
  <2> DEFINE h == [S \in SUBSET (1 .. 0) |-> base]
  <2>1. SUBSET (1 .. 0) = {{}}
    OBVIOUS
  <2>2. IsFold(h, A, F, base, 0, e)
    BY <2>1 DEF IsFold
  <2> QED
    BY <2>2
<1>5. m - 1 \in 0 .. n /\ m - 1 \notin bad
  <2>1. m \in 0 .. n
    OBVIOUS
  <2>2. m - 1 \in 0 .. n /\ ~(m <= m - 1)
    BY <1>4, <2>1
  <2> HIDE DEF bad
  <2> QED
    BY <1>3, <2>2
<1>6. PICK g : IsFold(g, A, F, base, m - 1, e)
  BY <1>5
<1> DEFINE h == [S \in SUBSET (1 .. m) |->
                   IF m \in S THEN F[<<g[S \ {m}], e[m]>>] ELSE g[S]]
<1>7. m \in 1 .. n
  BY <1>4
<1> HIDE DEF bad
<1>8. \A S \in SUBSET (1 .. m) : S \ {m} \in SUBSET (1 .. (m - 1))
  BY <1>7
<1>9. \A S \in SUBSET (1 .. m) : m \notin S => S \in SUBSET (1 .. (m - 1))
  BY <1>7
<1>10. h \in [SUBSET (1 .. m) -> A]
  BY <1>6, <1>7, <1>8, <1>9 DEF IsFold
<1>11. h[{}] = base
  BY <1>6 DEF IsFold
<1>12. ASSUME NEW S \in SUBSET (1 .. m), S # {}
       PROVE  h[S] = F[<<h[S \ {Max(S)}], e[Max(S)]>>]
  <2>1. CASE m \in S
    <3>1. Max(S) = m
      <4> HIDE DEF h
      <4>1. m \in Nat
        BY <1>7
      <4>2. Max(S) \in S /\ \A y \in S : Max(S) >= y
        BY <1>12, <4>1, MaxIsGreatest
      <4>3. Max(S) \in 1 .. m /\ Max(S) >= m
        BY <2>1, <4>2
      <4> QED
        BY <1>7, <4>3
    <3>2. h[S \ {m}] = g[S \ {m}]
      BY <1>8
    <3> QED
      BY <2>1, <3>1, <3>2
  <2>2. CASE m \notin S
    <3>1. S \in SUBSET (1 .. (m - 1)) /\ h[S] = g[S]
      BY <1>9, <2>2
    <3>2. S \ {Max(S)} \in SUBSET (1 .. (m - 1)) /\ S \ {Max(S)} \in SUBSET (1 .. m)
      BY <3>1
    <3>3. h[S \ {Max(S)}] = g[S \ {Max(S)}]
      BY <2>2, <3>2
    <3>4. g[S] = F[<<g[S \ {Max(S)}], e[Max(S)]>>]
      BY <1>6, <1>12, <3>1 DEF IsFold
    <3> QED
      BY <3>1, <3>3, <3>4
  <2> QED
    BY <2>1, <2>2
<1>13. IsFold(h, A, F, base, m, e)
  <2> HIDE DEF h
  <2> QED
    BY <1>10, <1>11, <1>12 DEF IsFold
<1>14. m \in bad
  BY <1>3
<1> QED
  BY <1>13, <1>14 DEF bad

\* Whatever takes the same steps as a fold ends with its value.
Follows(it, h, F, base, n, e) ==
  /\ it[{}] = base
  /\ \A S \in SUBSET (1 .. n) :
       S # {} /\ it[S \ {Max(S)}] = h[S \ {Max(S)}] =>
         it[S] = F[<<h[S \ {Max(S)}], e[Max(S)]>>]

LEMMA FoldsAgree ==
  ASSUME NEW A, NEW F, NEW base, NEW n \in Nat, NEW e, NEW h, IsFold(h, A, F, base, n, e),
         NEW it, Follows(it, h, F, base, n, e)
  PROVE  it[1 .. n] = h[1 .. n]
<1> DEFINE D == {S \in SUBSET (1 .. n) : it[S] = h[S]}
<1>1. {} \in D
  BY DEF IsFold, Follows
<1>2. ASSUME NEW S \in SUBSET (1 .. n), S # {}, S \ {Max(S)} \in D
      PROVE  S \in D
  BY <1>2 DEF IsFold, Follows
<1>3. SUBSET (1 .. n) \subseteq D
  <2> HIDE DEF D
  <2> QED
    BY <1>1, <1>2, ByTheLast
<1> QED
  BY <1>3

----------------------------------------------------------------------------
(* What the parser returns, and the proxy domains made of it.              *)

\* No option is both a switch and a list.
LEMMA SwitchesAreNoLists == \A key \in BooleanOptions : key \notin ListOptions
  BY DEF BooleanOptions, ListOptions

\* The arguments that words can stand in: every list of them is a sequence.
ArgsOver(W) ==
  LET V == W \cup {TRUE} \cup {IntOf[w] : w \in W} \cup Seq(W)
  IN  {b \in UNION {[K -> V] : K \in SUBSET Options} :
         \A key \in ListOptions : Has(b, key) => b[key] \in Seq(W)}

\* A list, empty if it is not given.
LEMMA ListIsOver ==
  ASSUME NEW W, NEW a \in ArgsOver(W), NEW key \in ListOptions
  PROVE  Value(a, key, <<>>) \in Seq(W)
  BY DEF Value, ArgsOver

\* One more argument of the right kind.
LEMMA WithIsOver ==
  ASSUME NEW W, NEW a \in ArgsOver(W), NEW key \in Options, NEW value,
         value \in W \cup {TRUE} \cup {IntOf[w] : w \in W} \cup Seq(W),
         key \in ListOptions => value \in Seq(W)
  PROVE  With(a, key, value) \in ArgsOver(W)
<1> DEFINE V == W \cup {TRUE} \cup {IntOf[w] : w \in W} \cup Seq(W)
<1>1. PICK K \in SUBSET Options : a \in [K -> V]
  BY DEF ArgsOver
<1> HIDE DEF V
<1>2. value \in V
  BY DEF V
<1>3. With(a, key, value) \in [K \cup {key} -> V] /\ K \cup {key} \in SUBSET Options
  BY <1>1, <1>2 DEF With
<1>4. \A k \in ListOptions : Has(a, k) => a[k] \in Seq(W)
  BY DEF ArgsOver
<1>5. \A k \in ListOptions : Has(With(a, key, value), k) => With(a, key, value)[k] \in Seq(W)
  BY <1>4 DEF With, Has
<1> QED
  BY <1>3, <1>5 DEF ArgsOver, V

\* What an option does to the arguments.
LEMMA TakenIsOver ==
  ASSUME NEW W, NEW a \in ArgsOver(W), NEW key \in Options, NEW value \in W, PathOf[value] \in W
  PROVE  Taken(a, key, value) \in ArgsOver(W)
<1> DEFINE word == IF key \in PathOptions /\ value \notin {NoWord, ""} THEN PathOf[value] ELSE value
<1>1. word \in W
  OBVIOUS
<1> HIDE DEF word
<1>2. CASE key \in BooleanOptions
  <2>1. With(a, key, TRUE) \in ArgsOver(W)
    BY <1>2, SwitchesAreNoLists, WithIsOver
  <2> QED
    BY <1>2, <2>1 DEF Taken
<1>3. CASE key \notin BooleanOptions /\ key \in ListOptions
  <2> DEFINE old == Value(a, key, <<>>)
  <2>1. old \in Seq(W)
    BY <1>3, ListIsOver
  <2> HIDE DEF old
  <2>2. Append(old, word) \in Seq(W)
    BY <1>1, <2>1
  <2>3. With(a, key, Append(old, word)) \in ArgsOver(W)
    BY <2>2, WithIsOver
  <2> QED
    BY <1>3, <2>3 DEF Taken, word, old
<1>4. CASE key \notin BooleanOptions /\ key \notin ListOptions
  <2>1. With(a, key, IntOf[word]) \in ArgsOver(W) /\ With(a, key, word) \in ArgsOver(W)
    BY <1>1, <1>4, WithIsOver
  <2> QED
    BY <1>4, <2>1 DEF Taken, word
<1> QED
  BY <1>2, <1>3, <1>4

\* The states of the parser's loop.
StatesOver(W) == [args : ArgsOver(W), ended : BOOLEAN, used : BOOLEAN, failed : BOOLEAN]

\* A round of the loop keeps them.
LEMMA ParseStepIsOver ==
  ASSUME NEW W, NEW state \in StatesOver(W), NEW argv, NEW i, NEW inFile,
         argv[i].text \in W, ValueAt(argv, i) \in W, PathOf[ValueAt(argv, i)] \in W
  PROVE  ParseStep(state, argv, i, inFile) \in StatesOver(W)
<1>1. state.args \in ArgsOver(W)
  BY DEF StatesOver
<1>2. With(state.args, "_", Append(Value(state.args, "_", <<>>), argv[i].text)) \in ArgsOver(W)
  <2> DEFINE old == Value(state.args, "_", <<>>)
  <2>1. "_" \in ListOptions /\ "_" \in Options
    BY DEF ListOptions, Options
  <2>2. old \in Seq(W)
    BY <1>1, <2>1, ListIsOver
  <2> HIDE DEF old
  <2>3. Append(old, argv[i].text) \in Seq(W)
    BY <2>2
  <2>4. With(state.args, "_", Append(old, argv[i].text)) \in ArgsOver(W)
    BY <1>1, <2>1, <2>3, WithIsOver
  <2> QED
    BY <2>4 DEF old
<1>3. ~Refused(argv, i, inFile) => Taken(state.args, argv[i].key, ValueAt(argv, i)) \in ArgsOver(W)
  <2>1. ~Refused(argv, i, inFile) => argv[i].key \in Options
    BY DEF Refused
  <2> QED
    BY <1>1, <2>1, TakenIsOver
<1>4. (argv[i].key \notin BooleanOptions /\ TakesNext(argv, i)) \in BOOLEAN
  OBVIOUS
<1>5. \A a \in ArgsOver(W), u \in BOOLEAN :
        /\ [state EXCEPT !.args = a] \in StatesOver(W)
        /\ [state EXCEPT !.args = a, !.used = u] \in StatesOver(W)
        /\ [state EXCEPT !.used = FALSE] \in StatesOver(W)
        /\ [state EXCEPT !.ended = TRUE] \in StatesOver(W)
        /\ [state EXCEPT !.failed = TRUE] \in StatesOver(W)
  BY DEF StatesOver
<1> QED
  BY <1>2, <1>3, <1>4, <1>5 DEF ParseStep

\* What the parser returns for a list is a sequence, whatever it is given.
LEMMA ParsedLists ==
  ASSUME NEW argv, NEW n \in Nat, DOMAIN argv = 1 .. n, NEW inFile
  PROVE  \E W : Parse(argv, inFile).args \in ArgsOver(W)
<1> DEFINE W == {argv[i].text : i \in 1 .. n} \cup {ValueAt(argv, i) : i \in 1 .. n}
                  \cup {PathOf[ValueAt(argv, i)] : i \in 1 .. n}
           A == StatesOver(W)
           base == [args |-> NoArgs, ended |-> FALSE, used |-> FALSE, failed |-> FALSE]
           e == [i \in DOMAIN argv |-> i]
           Equation(it) ==
             it = [S \in SUBSET DOMAIN e |->
                     IF S = {} THEN base ELSE ParseStep(it[S \ {Max(S)}], argv, e[Max(S)], inFile)]
           it == CHOOSE it : Equation(it)
           F == [p \in A \X (1 .. n) |-> ParseStep(p[1], argv, p[2], inFile)]
<1>1. Parse(argv, inFile).args = it[DOMAIN e].args
  BY DEF Parse, FoldLeftDomain, FoldLeft, MapThenFoldSet
<1>2. base \in A
  <2>1. NoArgs \in [{} -> W \cup {TRUE} \cup {IntOf[w] : w \in W} \cup Seq(W)]
    BY DEF NoArgs
  <2>2. NoArgs \in ArgsOver(W)
    BY <2>1 DEF ArgsOver, Has
  <2> HIDE DEF W
  <2> QED
    BY <2>2 DEF StatesOver
<1>3. \A a \in A, i \in 1 .. n : ParseStep(a, argv, i, inFile) \in A
  BY ParseStepIsOver
<1>4. e \in [1 .. n -> 1 .. n] /\ DOMAIN e = 1 .. n /\ \A i \in 1 .. n : e[i] = i
  OBVIOUS
<1> HIDE DEF A, W, base, e
<1>5. F \in [A \X (1 .. n) -> A]
  BY <1>3
<1>6. \A a \in A, i \in 1 .. n : F[<<a, i>>] = ParseStep(a, argv, i, inFile)
  OBVIOUS
<1> HIDE DEF F
<1>7. PICK h : IsFold(h, A, F, base, n, e)
  BY <1>2, <1>4, <1>5, FoldExists
<1>8. ASSUME NEW S \in SUBSET (1 .. n), S # {}
      PROVE  /\ h[S] = F[<<h[S \ {Max(S)}], e[Max(S)]>>]
             /\ h[S] = ParseStep(h[S \ {Max(S)}], argv, e[Max(S)], inFile)
  <2>1. h[S] = F[<<h[S \ {Max(S)}], e[Max(S)]>>]
    BY <1>7, <1>8 DEF IsFold
  <2>2. Max(S) \in 1 .. n
    BY <1>8, MaxIsGreatest
  <2>3. h[S \ {Max(S)}] \in A /\ e[Max(S)] \in 1 .. n
    BY <1>4, <1>7, <2>2 DEF IsFold
  <2>4. F[<<h[S \ {Max(S)}], e[Max(S)]>>] = ParseStep(h[S \ {Max(S)}], argv, e[Max(S)], inFile)
    BY <1>6, <2>3, Zenon
  <2> QED
    BY <2>1, <2>4, Zenon
<1>9. Equation(h)
  BY <1>4, <1>7, <1>8 DEF IsFold
<1>10. Equation(it)
  BY <1>9
<1> HIDE DEF it
<1>11. it[{}] = base
  BY <1>4, <1>10
<1>12. ASSUME NEW S \in SUBSET (1 .. n), S # {}, it[S \ {Max(S)}] = h[S \ {Max(S)}]
       PROVE  it[S] = F[<<h[S \ {Max(S)}], e[Max(S)]>>]
  <2>1. it[S] = ParseStep(it[S \ {Max(S)}], argv, e[Max(S)], inFile)
    BY <1>4, <1>10, <1>12
  <2> QED
    BY <1>8, <1>12, <2>1
<1>13. Follows(it, h, F, base, n, e)
  BY <1>11, <1>12 DEF Follows
<1>14. it[1 .. n] \in A
  <2>1. it[1 .. n] = h[1 .. n]
    BY <1>7, <1>13, FoldsAgree
  <2> QED
    BY <1>7, <2>1 DEF IsFold
<1>15. it[1 .. n].args \in ArgsOver(W)
  BY <1>14 DEF A, StatesOver
<1> QED
  BY <1>1, <1>4, <1>15

\* The parts of a sequence of sequences together are a sequence.
LEMMA FlatIsSeq ==
  ASSUME NEW T, NEW seqs \in Seq(Seq(T))
  PROVE  FlattenSeq(seqs) \in Seq(T)
<1> DEFINE n == Len(seqs)
           A == Seq(T)
           none == <<>>
           F == [p \in A \X A |-> p[1] \o p[2]]
           Equation(f) ==
             f = [i \in 1 .. n |-> IF i = 1 THEN seqs[i] ELSE f[i - 1] \o seqs[i]]
           f == CHOOSE f : Equation(f)
<1>1. FlattenSeq(seqs) = IF n = 0 THEN seqs ELSE f[n]
  BY DEF FlattenSeq
<1>2. CASE n = 0
  <2>1. seqs = <<>>
    BY <1>2
  <2> QED
    BY <1>1, <1>2, <2>1
<1>3. CASE n # 0
  <2>1. n \in Nat /\ seqs \in [1 .. n -> A] /\ none \in A
    OBVIOUS
  <2>2. \A a, b \in A : F[<<a, b>>] = a \o b /\ a \o b \in A /\ none \o a = a
    BY ConcatProperties, ConcatEmptySeq
  <2>3. F \in [A \X A -> A]
    BY <2>2
  <2> HIDE DEF n, A, F, none
  <2>4. PICK h : IsFold(h, A, F, none, n, seqs)
    BY <2>1, <2>3, FoldExists
  <2> DEFINE g == [i \in 1 .. n |-> h[1 .. i]]
  <2>5. ASSUME NEW i \in 1 .. n
        PROVE  h[1 .. i] = h[1 .. (i - 1)] \o seqs[i]
    <3>1. 1 .. i \in SUBSET (1 .. n) /\ 1 .. i # {} /\ 1 .. (i - 1) = (1 .. i) \ {i}
      <4>1. \A j : j \in 1 .. (i - 1) <=> j \in 1 .. i /\ j # i
        BY <2>1
      <4>2. \A j \in 1 .. i : j \in 1 .. n
        BY <2>1
      <4>3. i \in 1 .. i
        BY <2>1
      <4> QED
        BY <4>1, <4>2, <4>3
    <3>2. Max(1 .. i) \in 1 .. i /\ \A j \in 1 .. i : Max(1 .. i) >= j
      BY <2>1, <3>1, MaxIsGreatest
    <3>3. Max(1 .. i) = i
      BY <3>2
    <3>4. h[1 .. i] = F[<<h[1 .. (i - 1)], seqs[i]>>]
      BY <2>4, <3>1, <3>3 DEF IsFold
    <3>5. h[1 .. (i - 1)] \in A /\ seqs[i] \in A
      BY <2>1, <2>4, <3>1 DEF IsFold
    <3> QED
      BY <2>2, <3>4, <3>5
  <2>6. h[1 .. 0] = none
    BY <2>4 DEF IsFold
  <2>7. Equation(g)
    <3>1. ASSUME NEW i \in 1 .. n
          PROVE  g[i] = IF i = 1 THEN seqs[i] ELSE g[i - 1] \o seqs[i]
      <4>1. CASE i = 1
        <5>3. h[1 .. i] = h[1 .. (i - 1)] \o seqs[i]
          BY <2>5
        <5>4. i - 1 = 0
          BY <4>1
        <5>1. h[1 .. 1] = h[1 .. 0] \o seqs[1]
          BY <4>1, <5>3, <5>4, Zenon
        <5>2. seqs[1] \in A
          BY <2>1, <4>1
        <5> QED
          BY <2>2, <2>6, <4>1, <5>1, <5>2
      <4>2. CASE i # 1
        <5>1. i - 1 \in 1 .. n
          BY <2>1, <4>2
        <5> QED
          BY <2>5, <4>2, <5>1
      <4> QED
        BY <4>1, <4>2
    <3> QED
      BY <3>1
  <2>8. Equation(f)
    BY <2>7
  <2> HIDE DEF f
  <2> DEFINE bad == {i \in 1 .. n : f[i] \notin A}
  <2>9. ASSUME bad # {} PROVE FALSE
    <3>1. bad \in SUBSET Nat
      OBVIOUS
    <3>2. PICK i \in bad : \A j \in bad : i <= j
      BY <2>9, <3>1, MinIsLeast
    <3>3. f[i] = IF i = 1 THEN seqs[i] ELSE f[i - 1] \o seqs[i]
      BY <2>8
    <3>4. i # 1
      BY <2>1, <3>3
    <3>5. i - 1 \in 1 .. n /\ ~(i <= i - 1)
      BY <2>1, <3>4
    <3>6. f[i - 1] \in A
      BY <3>2, <3>5
    <3> QED
      BY <2>1, <2>2, <3>3, <3>4, <3>6
  <2>10. f[n] \in A
    BY <1>3, <2>1, <2>9
  <2> QED
    BY <1>1, <1>3, <2>10 DEF A
<1> QED
  BY <1>2, <1>3

\* Domains with a place for the port each.
Ported(domains) ==
  \E L : \E n \in Nat :
    /\ DOMAIN domains = 1 .. n
    /\ \A i \in 1 .. n : domains[i] \in Seq(L) /\ Contains(domains[i], PortPlace)

\* Every proxy domain has a place for the port.
LEMMA ProxyDomainsArePorted ==
  ASSUME NEW words, NEW n \in Nat, DOMAIN words = 1 .. n, NEW L,
         \A i \in 1 .. n : DomainOf[words[i]] \in Seq(L) \ {<<>>}
  PROVE  Ported(ProxyDomains(words))
<1> DEFINE labels(word) ==
             IF Head(DomainOf[word]) = "*" THEN Tail(DomainOf[word]) ELSE DomainOf[word]
           ported(one) ==
             IF Contains(one, PortPlace) THEN one ELSE <<PortPlace>> \o one
           AddNew(domains, word) == IF Contains(domains, labels(word)) THEN domains
                                    ELSE Append(domains, labels(word))
           Equation(it) ==
             it = [S \in SUBSET DOMAIN words |->
                     IF S = {} THEN <<>> ELSE AddNew(it[S \ {Max(S)}], words[Max(S)])]
           distinct == (CHOOSE it : Equation(it))[DOMAIN words]
           A == Seq(Seq(L))
           B == {words[i] : i \in 1 .. n}
<1>1. ProxyDomains(words) = [i \in DOMAIN distinct |-> ported(distinct[i])]
  BY DEF ProxyDomains, FoldLeft, MapThenFoldSet
<1>2. \A word \in B : labels(word) \in Seq(L)
  OBVIOUS
<1> HIDE DEF labels
<1>3. \A domains \in A, word \in B : AddNew(domains, word) \in A
  BY <1>2
<1> DEFINE F == [p \in A \X B |-> AddNew(p[1], p[2])]
           e == [i \in 1 .. n |-> words[i]]
<1>4. /\ F \in [A \X B -> A] /\ e \in [1 .. n -> B] /\ <<>> \in A
      /\ \A a \in A, b \in B : F[<<a, b>>] = AddNew(a, b)
      /\ \A i \in 1 .. n : e[i] = words[i] /\ e[i] \in B
  BY <1>3
<1> DEFINE none == <<>>
<1>18. none \in A
  BY <1>4
<1> HIDE DEF AddNew, A, B, F, e, none
<1>5. PICK h : IsFold(h, A, F, none, n, e)
  BY <1>4, <1>18, FoldExists
<1>6. ASSUME NEW S \in SUBSET (1 .. n), S # {}
      PROVE  S \ {Max(S)} \in SUBSET (1 .. n) /\ Max(S) \in 1 .. n
  BY <1>6, MaxIsGreatest
<1>7. ASSUME NEW S \in SUBSET (1 .. n), S # {}
      PROVE  /\ h[S] = F[<<h[S \ {Max(S)}], e[Max(S)]>>]
             /\ h[S] = AddNew(h[S \ {Max(S)}], words[Max(S)])
  <2>1. h[S] = F[<<h[S \ {Max(S)}], e[Max(S)]>>]
    BY <1>5, <1>7 DEF IsFold
  <2>2. h[S \ {Max(S)}] \in A /\ e[Max(S)] \in B /\ e[Max(S)] = words[Max(S)]
    BY <1>4, <1>5, <1>6, <1>7 DEF IsFold
  <2>3. F[<<h[S \ {Max(S)}], e[Max(S)]>>] = AddNew(h[S \ {Max(S)}], e[Max(S)])
    BY <1>4, <2>2, Zenon
  <2> QED
    BY <2>1, <2>2, <2>3, Zenon
<1>8. Equation(h)
  BY <1>5, <1>7 DEF IsFold, none
<1> DEFINE it == CHOOSE it : Equation(it)
<1>9. Equation(it)
  BY <1>8
<1> HIDE DEF it
<1>10. it[{}] = none
  BY <1>9 DEF none
<1>11. ASSUME NEW S \in SUBSET (1 .. n), S # {}, it[S \ {Max(S)}] = h[S \ {Max(S)}]
       PROVE  it[S] = F[<<h[S \ {Max(S)}], e[Max(S)]>>]
  <2>1. it[S] = AddNew(it[S \ {Max(S)}], words[Max(S)])
    BY <1>9, <1>11
  <2> QED
    BY <1>7, <1>11, <2>1
<1>12. Follows(it, h, F, none, n, e)
  BY <1>10, <1>11 DEF Follows
<1>20. it[1 .. n] = h[1 .. n]
  BY <1>5, <1>12, FoldsAgree
<1>13. distinct \in A
  BY <1>5, <1>20 DEF it, IsFold
<1> HIDE DEF distinct
<1>14. distinct \in Seq(Seq(L))
  BY <1>13 DEF A
<1>15. \A one \in Seq(L) : /\ ported(one) \in Seq(L \cup {PortPlace})
                              /\ Contains(ported(one), PortPlace)
  <2> SUFFICES ASSUME NEW one \in Seq(L)
               PROVE  /\ ported(one) \in Seq(L \cup {PortPlace})
                      /\ Contains(ported(one), PortPlace)
    OBVIOUS
  <2> DEFINE T == L \cup {PortPlace}
             first == <<PortPlace>>
  <2>1. first \in Seq(T) /\ one \in Seq(T) /\ Len(first) = 1 /\ first[1] = PortPlace
    BY SeqMonotonic
  <2> HIDE DEF T, first
  <2>2. /\ first \o one \in Seq(T)
        /\ Len(first \o one) = 1 + Len(one)
        /\ (first \o one)[1] = first[1]
    <3>1. Len(one) \in Nat
      BY <2>1
    <3>2. /\ first \o one \in Seq(T)
          /\ Len(first \o one) = Len(first) + Len(one)
          /\ \A i \in 1 .. Len(first) + Len(one) :
               (first \o one)[i] = IF i <= Len(first) THEN first[i] ELSE one[i - Len(first)]
      BY <2>1, ConcatProperties
    <3> QED
      BY <2>1, <3>1, <3>2
  <2>3. 1 \in 1 .. Len(first \o one)
    BY <2>1, <2>2
  <2>4. Contains(first \o one, PortPlace)
    BY <2>1, <2>2, <2>3 DEF Contains
  <2> QED
    BY <2>1, <2>2, <2>4 DEF T, first
<1> HIDE DEF ported
<1>16. DOMAIN ProxyDomains(words) = 1 .. Len(distinct)
  BY <1>1, <1>14
<1>17. \A i \in 1 .. Len(distinct) : ProxyDomains(words)[i] = ported(distinct[i])
  BY <1>1, <1>14
<1>19. Len(distinct) \in Nat /\ \A i \in 1 .. Len(distinct) : distinct[i] \in Seq(L)
  BY <1>14
<1>21. \E m \in Nat :
         /\ DOMAIN ProxyDomains(words) = 1 .. m
         /\ \A i \in 1 .. m : /\ ProxyDomains(words)[i] \in Seq(L \cup {PortPlace})
                             /\ Contains(ProxyDomains(words)[i], PortPlace)
  BY <1>15, <1>16, <1>17, <1>19
<1> QED
  BY <1>21, Zenon DEF Ported

\* A configuration becomes a sequence of words.
LEMMA ConfigIsSeq ==
  ASSUME NEW config, IsSequence(config),
         \A i \in DOMAIN config : config[i].kind = "list" => IsSequence(config[i].value)
  PROVE  \E T : ConfigArgv(config) \in Seq(T)
<1> DEFINE Option(key, value) ==
             [kind |-> "option", key |-> key, value |-> value, text |-> NoWord]
           Items(entry) ==
             CASE entry.kind = "true" -> <<Option(entry.key, NoWord)>>
               [] entry.kind = "list" ->
                    [i \in DOMAIN entry.value |-> Option(entry.key, ConfigWords[entry.value[i]])]
               [] OTHER -> <<Option(entry.key, ConfigWords[entry.value])>>
           seqs == [i \in DOMAIN config |-> Items(config[i])]
           T == UNION {{Items(config[i])[j] : j \in DOMAIN Items(config[i])} : i \in DOMAIN config}
<1>1. ConfigArgv(config) = FlattenSeq(seqs)
  BY DEF ConfigArgv
<1>2. Len(config) \in Nat /\ DOMAIN config = 1 .. Len(config)
  BY DEF IsSequence
<1> HIDE DEF Option
<1>3. ASSUME NEW i \in DOMAIN config
      PROVE  \E k \in Nat : Items(config[i]) = [j \in 1 .. k |-> Items(config[i])[j]]
  <2>1. CASE config[i].kind = "list"
    <3>1. Len(config[i].value) \in Nat /\ DOMAIN config[i].value = 1 .. Len(config[i].value)
      BY <2>1 DEF IsSequence
    <3>2. Items(config[i]) = [j \in 1 .. Len(config[i].value) |->
                                Option(config[i].key, ConfigWords[config[i].value[j]])]
      BY <2>1, <3>1
    <3> QED
      BY <3>1, <3>2
  <2>2. CASE config[i].kind # "list"
    <3>1. \E x : Items(config[i]) = <<x>>
      BY <2>2
    <3> HIDE DEF Items
    <3>2. Items(config[i]) = [j \in 1 .. 1 |-> Items(config[i])[j]]
      BY <3>1
    <3> QED
      BY <3>2
  <2> QED
    BY <2>1, <2>2
<1> HIDE DEF Items
<1>4. ASSUME NEW i \in DOMAIN config
      PROVE  Items(config[i]) \in Seq(T)
  <2>1. PICK k \in Nat : Items(config[i]) = [j \in 1 .. k |-> Items(config[i])[j]]
    BY <1>3
  <2>2. \A j \in 1 .. k : Items(config[i])[j] \in T
    BY <2>1
  <2> HIDE DEF T
  <2>3. Items(config[i]) \in [1 .. k -> T]
    BY <2>1, <2>2
  <2> QED
    BY <2>3, SeqDef
<1> HIDE DEF T
<1>5. seqs \in Seq(Seq(T))
  <2>1. seqs \in [1 .. Len(config) -> Seq(T)]
    BY <1>2, <1>4
  <2> HIDE DEF seqs
  <2> QED
    BY <1>2, <2>1, SeqDef
<1> QED
  BY <1>1, <1>5, FlatIsSeq

\* What a serving process takes for its proxy domains.
LEMMA ServedDomains ==
  ASSUME NEW words \in Invocation, EntryOf(words).does = "serve"
  PROVE  /\ Has(EntryOf(words).args, "proxy-domain")
         /\ Ported(EntryOf(words).args["proxy-domain"])
<1> DEFINE cli == Parse(words.argv, FALSE).args
           config == ParseConfigFile(words.file).args
<1>1. "proxy-domain" \in ListOptions
  BY DEF ListOptions
<1>2. PICK W : cli \in ArgsOver(W)
  <2>1. Len(words.argv) \in Nat /\ DOMAIN words.argv = 1 .. Len(words.argv)
    BY InvocationsAssumption DEF IsSequence
  <2> QED
    BY <2>1, ParsedLists
<1>3. PICK X : Value(config, "proxy-domain", <<>>) \in Seq(X)
  <2>1. CASE words.file.kind \in {"empty", "scalar"}
    <3>1. config = NoArgs
      BY <2>1 DEF ParseConfigFile
    <3>2. Value(config, "proxy-domain", <<>>) = <<>>
      BY <3>1 DEF Value, Has, NoArgs
    <3>3. <<>> \in Seq({})
      BY EmptySeq
    <3> QED
      BY <3>2, <3>3
  <2>2. CASE words.file.kind \notin {"empty", "scalar"}
    <3>1. /\ IsSequence(words.file.entries)
          /\ \A i \in DOMAIN words.file.entries :
               words.file.entries[i].kind = "list" => IsSequence(words.file.entries[i].value)
      BY <2>2, InvocationsAssumption
    <3>2. PICK T : ConfigArgv(words.file.entries) \in Seq(T)
      BY <3>1, ConfigIsSeq
    <3>3. /\ Len(ConfigArgv(words.file.entries)) \in Nat
          /\ DOMAIN ConfigArgv(words.file.entries) = 1 .. Len(ConfigArgv(words.file.entries))
      BY <3>2
    <3>4. PICK X : Parse(ConfigArgv(words.file.entries), TRUE).args \in ArgsOver(X)
      BY <3>3, ParsedLists
    <3>5. config = Parse(ConfigArgv(words.file.entries), TRUE).args
      BY <2>2 DEF ParseConfigFile
    <3> QED
      BY <1>1, <3>4, <3>5, ListIsOver
  <2> QED
    BY <2>1, <2>2
<1>4. Value(cli, "proxy-domain", <<>>) \in Seq(W)
  BY <1>1, <1>2, ListIsOver
<1>5. ProxyWords(words) \in Seq(W) \/ ProxyWords(words) \in Seq(X)
  <2> HIDE DEF cli, config
  <2>1. ProxyWords(words) = Value(Assign(config, cli), "proxy-domain", <<>>)
    BY DEF ProxyWords, cli, config
  <2>2. \/ ProxyWords(words) = Value(cli, "proxy-domain", <<>>)
        \/ ProxyWords(words) = Value(config, "proxy-domain", <<>>)
    BY <2>1 DEF Value, Assign, Has
  <2> QED
    BY <1>3, <1>4, <2>2
<1>6. PICK n \in Nat : DOMAIN ProxyWords(words) = 1 .. n
  <2>1. ASSUME NEW S, ProxyWords(words) \in Seq(S)
        PROVE  \E n \in Nat : DOMAIN ProxyWords(words) = 1 .. n
    BY <2>1
  <2> QED
    BY <1>5, <2>1
<1> DEFINE L == UNION {ToSet(DomainOf[ProxyWords(words)[i]]) : i \in 1 .. n}
<1>7. ASSUME NEW i \in 1 .. n
      PROVE  DomainOf[ProxyWords(words)[i]] \in Seq(L) \ {<<>>}
  <2> DEFINE one == DomainOf[ProxyWords(words)[i]]
  <2>1. one # <<>> /\ one \in Seq(ToSet(one))
    BY <1>6, DomainsAssumption DEF IsSequence
  <2>2. ToSet(one) \subseteq L
    OBVIOUS
  <2> HIDE DEF one, L
  <2>3. one \in Seq(L)
    BY <2>1, <2>2, SeqMonotonic
  <2> QED
    BY <2>1, <2>3 DEF one
<1> HIDE DEF L
<1>8. Ported(ProxyDomains(ProxyWords(words)))
  BY <1>6, <1>7, ProxyDomainsArePorted
<1> HIDE DEF cli, config
<1>9. EntryOf(words).args = SetDefaults(cli, config, words.env).args
  BY ServedArgs DEF cli, config
<1>10. /\ EntryOf(words).args["proxy-domain"] =
            ProxyDomains(Value(Assign(config, cli), "proxy-domain", <<>>))
       /\ Has(EntryOf(words).args, "proxy-domain")
  BY <1>9, DefaultsOf
<1> QED
  BY <1>8, <1>10 DEF ProxyWords, cli, config

----------------------------------------------------------------------------
(* Logging in and out.                                                     *)

\* A host that gets a cookie without a domain.
Lone(name) ==
  \/ Len(name) < 2
  \/ ToSet(name) \subseteq Numeral
  \/ Last(name) = "localhost"

\* What a name ends with consists of labels of it.
LEMMA SuffixLabels ==
  ASSUME NEW S, NEW t \in Seq(S), NEW L, NEW s \in Seq(L), IsSuffix(s, t)
  PROVE  ToSet(s) \subseteq ToSet(t)
<1>1. Len(s) \in Nat /\ Len(t) \in Nat /\ Len(Reverse(s)) = Len(s) /\ Len(Reverse(t)) = Len(t)
  BY DEF Reverse
<1>2. Len(s) <= Len(t) /\ SubSeq(Reverse(s), 1, Len(s)) = SubSeq(Reverse(t), 1, Len(s))
  BY <1>1 DEF IsSuffix, IsPrefix
<1>3. ASSUME NEW i \in 1 .. Len(s)
      PROVE  s[i] = t[Len(t) - Len(s) + i]
  <2> DEFINE j == Len(s) - i + 1
  <2>1. j \in 1 .. Len(s) /\ Len(s) - j + 1 = i /\ Len(t) - j + 1 = Len(t) - Len(s) + i
    BY <1>1
  <2>2. Reverse(s) \in Seq(L) /\ Reverse(t) \in Seq(S)
    BY <1>1 DEF Reverse
  <2> HIDE DEF j
  <2>3. /\ SubSeq(Reverse(s), 1, Len(s))[j] = Reverse(s)[j]
        /\ SubSeq(Reverse(t), 1, Len(s))[j] = Reverse(t)[j]
    BY <1>1, <1>2, <2>1, <2>2
  <2>4. Reverse(s)[j] = s[i] /\ Reverse(t)[j] = t[Len(t) - Len(s) + i]
    <3>1. j \in 1 .. Len(t)
      BY <1>1, <1>2, <2>1
    <3>2. Reverse(s)[j] = s[Len(s) - j + 1] /\ Reverse(t)[j] = t[Len(t) - j + 1]
      BY <2>1, <3>1 DEF Reverse
    <3> QED
      BY <2>1, <3>2
  <2> QED
    BY <1>2, <2>3, <2>4
<1>4. \A i \in 1 .. Len(s) : Len(t) - Len(s) + i \in 1 .. Len(t)
  BY <1>1, <1>2
<1> QED
  BY <1>3, <1>4 DEF ToSet

\* The session cookie belongs to the host itself, whatever proxy domains there
\* are: none of them is a domain above a host, for the place of the port.
LEMMA OwnDomain ==
  ASSUME NEW host \in Host, NEW domains, Ported(domains)
  PROVE  CookieDomain(host.name, domains) = IF Lone(host.name) THEN <<>> ELSE host.name
<1> DEFINE name == host.name
           Higher(one, domain) ==
             IF IsSuffix(domain, one) /\ Len(domain) < Len(one) THEN domain ELSE one
           Equation(it) ==
             it = [S \in SUBSET DOMAIN domains |->
                     IF S = {} THEN name ELSE Higher(it[S \ {Max(S)}], domains[Max(S)])]
           it == CHOOSE it : Equation(it)
<1>1. CookieDomain(name, domains) = IF Lone(name) THEN <<>> ELSE it[DOMAIN domains]
  BY DEF CookieDomain, FoldLeft, MapThenFoldSet, Lone
<1>2. PICK L : \E n \in Nat :
        /\ DOMAIN domains = 1 .. n
        /\ \A i \in 1 .. n : domains[i] \in Seq(L) /\ Contains(domains[i], PortPlace)
  BY DEF Ported
<1>3. PICK n \in Nat :
        /\ DOMAIN domains = 1 .. n
        /\ \A i \in 1 .. n : domains[i] \in Seq(L) /\ Contains(domains[i], PortPlace)
  BY <1>2
<1>4. name \in Seq(ToSet(name)) /\ PortPlace \notin ToSet(name)
  BY HostsAssumption DEF IsSequence
<1>5. ASSUME NEW i \in 1 .. n
      PROVE  Higher(name, domains[i]) = name
  <2>1. domains[i] \in Seq(L) /\ Contains(domains[i], PortPlace)
    BY <1>3
  <2>2. PortPlace \in ToSet(domains[i])
    BY <2>1 DEF Contains, ToSet
  <2> HIDE DEF name
  <2>3. ~IsSuffix(domains[i], name)
    BY <1>4, <2>1, <2>2, SuffixLabels
  <2> QED
    BY <2>3
<1> HIDE DEF name, Higher
<1> DEFINE g == [S \in SUBSET (1 .. n) |-> name]
<1>6. ASSUME NEW S \in SUBSET (1 .. n), S # {}
      PROVE  S \ {Max(S)} \in SUBSET (1 .. n) /\ Max(S) \in 1 .. n
  BY <1>6, MaxIsGreatest
<1>7. Equation(g)
  <2>1. ASSUME NEW S \in SUBSET (1 .. n), S # {}
        PROVE  g[S] = Higher(g[S \ {Max(S)}], domains[Max(S)])
    BY <1>5, <1>6, <2>1
  <2> QED
    BY <1>3, <2>1
<1>8. Equation(it)
  BY <1>7
<1> HIDE DEF it
<1> DEFINE D == {S \in SUBSET (1 .. n) : it[S] = name}
<1>9. {} \in D
  BY <1>3, <1>8
<1>10. ASSUME NEW S \in SUBSET (1 .. n), S # {}, S \ {Max(S)} \in D
       PROVE  S \in D
  <2>1. it[S] = Higher(it[S \ {Max(S)}], domains[Max(S)])
    BY <1>3, <1>8, <1>10
  <2> QED
    BY <1>5, <1>6, <1>10, <2>1
<1>11. SUBSET (1 .. n) \subseteq D
  <2> HIDE DEF D
  <2> QED
    BY <1>9, <1>10, ByTheLast
<1>12. it[DOMAIN domains] = name
  BY <1>3, <1>11
<1> QED
  BY <1>1, <1>12 DEF name

\* Every name ends with itself.
LEMMA SuffixOfItself ==
  ASSUME NEW S, NEW s \in Seq(S)
  PROVE  IsSuffix(s, s)
<1> DEFINE back == Reverse(s)
<1>1. back \in Seq(S)
  BY DEF Reverse
<1> HIDE DEF back
<1>2. IsPrefix(back, back)
  BY <1>1 DEF IsPrefix
<1> QED
  BY <1>2 DEF IsSuffix, back

\* The session cookie that the server sets at a host and clears there.
IsOwn(cookie, host) == cookie.name = host.name /\ cookie.wide = ~Lone(host.name)

\* Every cookie is some host's own and is there once; at a host that has been
\* left there is none.
JarIsOwn ==
  \E S : jar \in Seq(S) /\ \A cookie \in S : \E host \in Host : IsOwn(cookie, host)

CookiesDiffer == \A i, j \in DOMAIN jar : SameCookie(jar[i], jar[j]) => i = j

OutIsClear == \A host \in out : host \in Host /\ \A i \in DOMAIN jar : ~IsOwn(jar[i], host)

\* What the server was started with has places for the ports.
ServesPorted ==
  /\ phase = "invoked" => given \in Invocation
  /\ phase = "up" => Ported(args["proxy-domain"])

JInv == ServesPorted /\ JarIsOwn /\ CookiesDiffer /\ OutIsClear

\* A cookie that the server sets or clears at a host is the host's own, and
\* the browser takes it.
LEMMA CookieIsOwn ==
  ASSUME ServesPorted, phase = "up", NEW host \in Host, NEW value
  PROVE  /\ IsOwn(Cookie(host, value), host)
         /\ Cookie(host, value).value = value
         /\ Applies(Cookie(host, value), host)
<1>1. Domain(host) = IF Lone(host.name) THEN <<>> ELSE host.name
  BY OwnDomain DEF ServesPorted, Domain
<1>2. host.name \in Seq(ToSet(host.name))
  BY HostsAssumption DEF IsSequence
<1>3. host.name = <<>> => Lone(host.name)
  BY DEF Lone
<1>4. Cookie(host, value) = [name |-> host.name, wide |-> ~Lone(host.name), value |-> value]
  BY <1>1, <1>3 DEF Cookie, Lone
<1>5. IsSuffix(host.name, host.name)
  BY <1>2, SuffixOfItself
<1> QED
  BY <1>4, <1>5 DEF IsOwn, Applies

\* What the host's own cookie is the same as.
LEMMA SameIsOwn ==
  ASSUME NEW host, NEW own, IsOwn(own, host), NEW cookie
  PROVE  /\ SameCookie(cookie, own) <=> IsOwn(cookie, host)
         /\ SameCookie(own, cookie) <=> IsOwn(cookie, host)
  BY DEF SameCookie, IsOwn

\* Two hosts have no cookie in common.
LEMMA OwnersDiffer ==
  ASSUME NEW host \in Host, NEW other \in Host, NEW cookie,
         IsOwn(cookie, host), IsOwn(cookie, other)
  PROVE  host = other
  BY HostsAssumption DEF IsOwn

\* What is left of a sequence, and where it stood.
LEMMA RemovedAt ==
  ASSUME NEW S, NEW s \in Seq(S), NEW m \in 1 .. Len(s)
  PROVE  /\ RemoveAt(s, m) \in Seq(S)
         /\ Len(RemoveAt(s, m)) = Len(s) - 1
         /\ \A j \in 1 .. (Len(s) - 1) :
              RemoveAt(s, m)[j] = IF j < m THEN s[j] ELSE s[j + 1]
<1> DEFINE left == SubSeq(s, 1, m - 1)
           right == SubSeq(s, m + 1, Len(s))
<1>1. Len(s) \in Nat /\ \A i \in 1 .. Len(s) : s[i] \in S
  OBVIOUS
<1>2. left \in Seq(S) /\ Len(left) = m - 1 /\ \A i \in 1 .. (m - 1) : left[i] = s[i]
  <2>1. \A i \in 1 .. (m - 1) : s[i] \in S
    BY <1>1
  <2> QED
    BY <1>1, <2>1
<1>3. /\ right \in Seq(S) /\ Len(right) = Len(s) - m
      /\ \A i \in 1 .. (Len(s) - m) : right[i] = s[m + i]
  <2>1. \A i \in (m + 1) .. Len(s) : s[i] \in S
    BY <1>1
  <2> QED
    BY <1>1, <2>1
<1>4. RemoveAt(s, m) = left \o right
  BY DEF RemoveAt
<1> HIDE DEF left, right
<1>5. /\ left \o right \in Seq(S)
      /\ Len(left \o right) = Len(left) + Len(right)
      /\ \A i \in 1 .. Len(left) + Len(right) :
           (left \o right)[i] = IF i <= Len(left) THEN left[i] ELSE right[i - Len(left)]
  BY <1>2, <1>3, ConcatProperties
<1>6. Len(left) + Len(right) = Len(s) - 1
  BY <1>1, <1>2, <1>3
<1>7. ASSUME NEW j \in 1 .. (Len(s) - 1)
      PROVE  (left \o right)[j] = IF j < m THEN s[j] ELSE s[j + 1]
  <2>1. CASE j < m
    <3>1. j \in 1 .. (m - 1) /\ j <= Len(left)
      BY <1>2, <2>1
    <3> QED
      BY <1>2, <1>5, <1>6, <2>1, <3>1
  <2>2. CASE ~(j < m)
    <3>1. ~(j <= Len(left)) /\ j - Len(left) \in 1 .. (Len(s) - m) /\ m + (j - Len(left)) = j + 1
      BY <1>1, <1>2, <2>2
    <3> QED
      BY <1>3, <1>5, <1>6, <2>2, <3>1
  <2> QED
    BY <2>1, <2>2
<1> QED
  BY <1>4, <1>5, <1>6, <1>7

\* A login puts the host's own cookie into the jar, in the place of the old one.
LEMMA LoginKeepsJar ==
  ASSUME JInv, phase = "up", NEW host \in Host, NEW value,
         jar' = Stored(host, value), out' = out \ {host}
  PROVE  /\ JarIsOwn' /\ CookiesDiffer' /\ OutIsClear'
         /\ \E i \in DOMAIN jar' : IsOwn(jar'[i], host)
         /\ \A i \in DOMAIN jar' :
              \/ IsOwn(jar'[i], host) /\ jar'[i].value = value
              \/ i \in DOMAIN jar /\ jar'[i] = jar[i] /\ ~IsOwn(jar'[i], host)
<1> DEFINE new == Cookie(host, value)
           old == {i \in DOMAIN jar : SameCookie(jar[i], new)}
<1>1. PICK S : jar \in Seq(S) /\ \A cookie \in S : \E h \in Host : IsOwn(cookie, h)
  BY DEF JInv, JarIsOwn
<1>2. IsOwn(new, host) /\ new.value = value /\ Applies(new, host)
  BY CookieIsOwn DEF JInv
<1>3. jar' = IF old = {} THEN Append(jar, new)
             ELSE [i \in DOMAIN jar |-> IF i \in old THEN new ELSE jar[i]]
  BY <1>2 DEF Stored
<1> HIDE DEF new
<1>4. \A i \in DOMAIN jar : i \in old <=> IsOwn(jar[i], host)
  BY <1>2, SameIsOwn
<1>5. \A i, j \in DOMAIN jar : SameCookie(jar[i], jar[j]) => i = j
  BY DEF JInv, CookiesDiffer
<1> HIDE DEF old
<1> DEFINE T == S \cup {new}
<1>6. \A cookie \in T : \E h \in Host : IsOwn(cookie, h)
  BY <1>1, <1>2
<1>7. CASE old = {}
  <2>1. jar' = Append(jar, new)
    BY <1>3, <1>7
  <2>2. jar \in Seq(T) /\ new \in T
    BY <1>1, SeqMonotonic
  <2> HIDE DEF T
  <2>3. /\ jar' \in Seq(T) /\ Len(jar) \in Nat /\ DOMAIN jar = 1 .. Len(jar)
        /\ DOMAIN jar' = 1 .. (Len(jar) + 1) /\ jar'[Len(jar) + 1] = new
        /\ \A i \in 1 .. Len(jar) : jar'[i] = jar[i]
    BY <2>1, <2>2
  <2>4. \A i \in DOMAIN jar' : i = Len(jar) + 1 \/ i \in DOMAIN jar
    BY <2>3
  <2>5. \A i \in DOMAIN jar : jar'[i] = jar[i] /\ ~IsOwn(jar[i], host)
    BY <1>4, <1>7, <2>3
  <2>6. Len(jar) + 1 \in DOMAIN jar'
    BY <2>3
  <2>7. CookiesDiffer'
    <3> SUFFICES ASSUME NEW i \in DOMAIN jar', NEW j \in DOMAIN jar', SameCookie(jar'[i], jar'[j])
                 PROVE  i = j
      BY DEF CookiesDiffer, SameCookie
    <3> QED
      BY <1>2, <1>5, <2>3, <2>4, <2>5, SameIsOwn
  <2>8. JarIsOwn'
    BY <1>6, <2>3 DEF JarIsOwn, IsOwn, Lone
  <2>9. OutIsClear'
    BY <1>2, <2>3, <2>4, <2>5, OwnersDiffer DEF JInv, OutIsClear, IsOwn, Lone
  <2> QED
    BY <1>2, <2>3, <2>4, <2>5, <2>6, <2>7, <2>8, <2>9
<1>8. CASE old # {}
  <2>1. jar' = [i \in DOMAIN jar |-> IF i \in old THEN new ELSE jar[i]]
    BY <1>3, <1>8
  <2>2. jar \in Seq(T) /\ new \in T
    BY <1>1, SeqMonotonic
  <2> HIDE DEF T
  <2>3. jar' \in Seq(T) /\ DOMAIN jar' = DOMAIN jar
    BY <2>1, <2>2
  <2>4. \A i \in DOMAIN jar : IF i \in old THEN jar'[i] = new /\ IsOwn(jar[i], host)
                              ELSE jar'[i] = jar[i] /\ ~IsOwn(jar[i], host)
    BY <1>4, <2>1
  <2>5. \E i \in DOMAIN jar : i \in old
    BY <1>4, <1>8 DEF old
  <2>6. \A i, j \in old : i = j
    <3> SUFFICES ASSUME NEW i \in old, NEW j \in old PROVE i = j
      OBVIOUS
    <3>1. i \in DOMAIN jar /\ j \in DOMAIN jar
      BY DEF old
    <3>2. SameCookie(jar[i], jar[j])
      BY <1>4, <3>1, SameIsOwn
    <3> QED
      BY <1>5, <3>1, <3>2
  <2>7. CookiesDiffer'
    <3> SUFFICES ASSUME NEW i \in DOMAIN jar', NEW j \in DOMAIN jar', SameCookie(jar'[i], jar'[j])
                 PROVE  i = j
      BY DEF CookiesDiffer, SameCookie
    <3> QED
      BY <1>2, <1>5, <2>3, <2>4, <2>6, SameIsOwn
  <2>8. JarIsOwn'
    BY <1>6, <2>3 DEF JarIsOwn, IsOwn, Lone
  <2>9. OutIsClear'
    BY <1>2, <2>3, <2>4, OwnersDiffer DEF JInv, OutIsClear, IsOwn, Lone
  <2> QED
    BY <1>2, <2>3, <2>4, <2>5, <2>7, <2>8, <2>9
<1> QED
  BY <1>7, <1>8

\* A logout takes the host's own cookie out of the jar.
LEMMA LogoutKeepsJar ==
  ASSUME JInv, phase = "up", NEW host \in Host,
         jar' = Cleared(host), out' = out \cup {host}
  PROVE  JarIsOwn' /\ CookiesDiffer' /\ OutIsClear'
<1> DEFINE own == Cookie(host, NoHash)
           found == {i \in DOMAIN jar : SameCookie(jar[i], own)}
<1>1. PICK S : jar \in Seq(S) /\ \A cookie \in S : \E h \in Host : IsOwn(cookie, h)
  BY DEF JInv, JarIsOwn
<1>2. IsOwn(own, host)
  BY CookieIsOwn DEF JInv
<1>3. jar' = IF found = {} THEN jar ELSE RemoveAt(jar, Min(found))
  BY DEF Cleared, Without
<1> HIDE DEF own
<1>4. \A i \in DOMAIN jar : i \in found <=> IsOwn(jar[i], host)
  BY <1>2, SameIsOwn
<1>5. \A i, j \in DOMAIN jar : SameCookie(jar[i], jar[j]) => i = j
  BY DEF JInv, CookiesDiffer
<1>6. CASE found = {}
  <2>1. jar' = jar
    BY <1>3, <1>6
  <2>2. \A i \in DOMAIN jar : ~IsOwn(jar[i], host)
    BY <1>4, <1>6
  <2>3. OutIsClear'
    BY <2>1, <2>2 DEF JInv, OutIsClear, IsOwn, Lone
  <2> QED
    BY <2>1, <2>3 DEF JInv, JarIsOwn, CookiesDiffer, SameCookie, IsOwn, Lone
<1>7. CASE found # {}
  <2> DEFINE m == Min(found)
  <2>1. m \in found
    <3>1. found \in SUBSET Nat
      BY <1>1
    <3> QED
      BY <1>7, <3>1, MinIsLeast
  <2>2. m \in 1 .. Len(jar) /\ DOMAIN jar = 1 .. Len(jar) /\ Len(jar) \in Nat /\ IsOwn(jar[m], host)
    BY <1>1, <1>4, <2>1
  <2>3. jar' = RemoveAt(jar, m)
    BY <1>3, <1>7
  <2> HIDE DEF found, m
  <2>4. /\ jar' \in Seq(S) /\ Len(jar') = Len(jar) - 1
        /\ \A j \in 1 .. (Len(jar) - 1) : jar'[j] = IF j < m THEN jar[j] ELSE jar[j + 1]
    BY <1>1, <2>2, <2>3, RemovedAt
  <2>5. DOMAIN jar' = 1 .. (Len(jar) - 1)
    BY <2>4
  <2> DEFINE was(j) == IF j < m THEN j ELSE j + 1
  <2>6. \A j \in DOMAIN jar' :
          was(j) \in DOMAIN jar /\ was(j) # m /\ jar'[j] = jar[was(j)]
    BY <2>2, <2>4, <2>5
  <2>7. \A i, j \in DOMAIN jar' : was(i) = was(j) => i = j
    BY <2>2, <2>5
  <2> HIDE DEF was
  <2>8. \A i \in DOMAIN jar : IsOwn(jar[i], host) => i = m
    BY <1>5, <2>2, SameIsOwn
  <2>9. CookiesDiffer'
    BY <1>5, <2>6, <2>7 DEF CookiesDiffer, SameCookie
  <2>10. JarIsOwn'
    BY <1>1, <2>4 DEF JarIsOwn, IsOwn, Lone
  <2>11. OutIsClear'
    <3> SUFFICES ASSUME NEW h \in out', NEW j \in DOMAIN jar', IsOwn(jar'[j], h)
                 PROVE  FALSE
      BY DEF JInv, OutIsClear, IsOwn, Lone
    <3>1. IsOwn(jar[was(j)], h) /\ was(j) \in DOMAIN jar /\ was(j) # m
      BY <2>6
    <3>2. CASE h = host
      BY <2>8, <3>1, <3>2
    <3>3. CASE h # host
      BY <3>1, <3>3 DEF JInv, OutIsClear
    <3> QED
      BY <3>2, <3>3
  <2> QED
    BY <2>9, <2>10, <2>11
<1> QED
  BY <1>6, <1>7

\* At first the jar is empty and nobody has left.
LEMMA InitJInv == Init => JInv
<1> SUFFICES ASSUME Init PROVE JInv
  OBVIOUS
<1>1. jar = <<>> /\ out = {} /\ phase = "down"
  BY DEF Init
<1>2. jar \in Seq({})
  BY <1>1
<1>3. JarIsOwn
  BY <1>2 DEF JarIsOwn
<1> QED
  BY <1>1, <1>3 DEF JInv, ServesPorted, CookiesDiffer, OutIsClear

\* A step of the server alone leaves the jar as it is.
LEMMA FrameJInv ==
  ASSUME JInv, UNCHANGED <<jar, out>>, ServesPorted'
  PROVE  JInv'
  BY DEF JInv, JarIsOwn, CookiesDiffer, OutIsClear, SameCookie, IsOwn, Lone

\* A step that changes neither what the server is nor what it was given.
LEMMA SamePorted ==
  ASSUME JInv, phase' = phase, given' = given, args' = args
  PROVE  ServesPorted'
  BY DEF JInv, ServesPorted, Ported

\* Every step keeps the cookies the hosts' own.
LEMMA NextJInv == IInv /\ JInv /\ [Next]_vars => JInv'
<1> SUFFICES ASSUME IInv, JInv, [Next]_vars
             PROVE  JInv'
  OBVIOUS
<1>1. ASSUME NEW words \in Invocation, Invoke(words)
      PROVE  JInv'
  <2>1. ServesPorted'
    BY <1>1 DEF Invoke, ServesPorted
  <2> QED
    BY <1>1, <2>1, FrameJInv DEF Invoke, browserVars
<1>2. CASE Serve
  <2>1. given \in Invocation /\ EntryOf(given).does = "serve"
    BY <1>2 DEF Serve, JInv, ServesPorted
  <2>2. /\ "proxy-domain" \in DOMAIN EntryOf(given).args
        /\ Ported(EntryOf(given).args["proxy-domain"])
    BY <2>1, ServedDomains DEF Has
  <2>3. args'["proxy-domain"] = EntryOf(given).args["proxy-domain"]
    BY <1>2, <2>2 DEF Serve, AccessKeys, Restrict
  <2>4. ServesPorted'
    BY <1>2, <2>2, <2>3 DEF Serve, ServesPorted, Ported
  <2> QED
    BY <1>2, <2>4, FrameJInv DEF Serve, browserVars
<1>3. CASE DoOtherwise
  <2>1. ServesPorted'
    BY <1>3 DEF DoOtherwise, ServesPorted
  <2> QED
    BY <1>3, <2>1, FrameJInv DEF DoOtherwise, browserVars
<1>4. CASE Relaunch
  BY <1>4, SamePorted, FrameJInv DEF Relaunch, browserVars
<1>5. CASE Stop
  <2>1. ServesPorted'
    BY <1>5 DEF Stop, ServesPorted
  <2> QED
    BY <1>5, <2>1, FrameJInv DEF Stop, browserVars
<1>6. ASSUME NEW s \in Slot, NEW host \in Host, NEW password \in Password,
             LoginBegins(s, host, password)
      PROVE  JInv'
  BY <1>6, SamePorted, FrameJInv DEF LoginBegins, browserVars
<1>7. ASSUME NEW s \in Slot, LoginEnds(s)
      PROVE  JInv'
  <2> DEFINE host == attempts[s].host
             result == HandlePasswordValidation(args, attempts[s].password)
  <2>1. ServesPorted'
    BY <1>7, SamePorted DEF LoginEnds
  <2>2. phase = "up" /\ host \in Host
    BY <1>7 DEF LoginEnds, IInv, TypeOK, Attempt
  <2>3. CASE result.valid
    <3>1. jar' = Stored(host, result.cookie) /\ out' = out \ {host}
      BY <1>7, <2>3 DEF LoginEnds
    <3> HIDE DEF host, result
    <3> QED
      BY <2>1, <2>2, <3>1, LoginKeepsJar DEF JInv
  <2>4. CASE ~result.valid
    <3>1. UNCHANGED <<jar, out>>
      BY <1>7, <2>4 DEF LoginEnds, browserVars
    <3> QED
      BY <2>1, <3>1, FrameJInv
  <2> QED
    BY <2>3, <2>4
<1>8. ASSUME NEW host \in Host, Logout(host)
      PROVE  JInv'
  <2>1. ServesPorted'
    BY <1>8, SamePorted DEF Logout
  <2>2. phase = "up" /\ jar' = Cleared(host) /\ out' = out \cup {host}
    BY <1>8 DEF Logout
  <2> QED
    BY <2>1, <2>2, LogoutKeepsJar DEF JInv
<1>9. CASE MinuteDrips
  BY <1>9, SamePorted, FrameJInv DEF MinuteDrips, browserVars
<1>10. CASE HourDrips
  BY <1>10, SamePorted, FrameJInv DEF HourDrips, browserVars
<1>11. CASE MinuteEnds \/ HourEnds
  BY <1>11, SamePorted, FrameJInv DEF MinuteEnds, HourEnds, browserVars
<1>12. CASE UNCHANGED vars
  BY <1>12, SamePorted, FrameJInv DEF vars
<1> QED
  BY <1>1, <1>2, <1>3, <1>4, <1>5, <1>6, <1>7, <1>8, <1>9, <1>10, <1>11, <1>12 DEF Next

\* The cookie of a right password is recognised.
LEMMA RightCookieIsValid ==
  ASSUME NEW password, password # "", password # NoWord,
         HandlePasswordValidation(args, password).valid
  PROVE  IsCookieValid(args, HandlePasswordValidation(args, password).cookie)
<1> DEFINE hashed == HashOf[args["hashed-password"]]
           result == HandlePasswordValidation(args, password)
<1>1. PasswordMethod(args) \in {"PLAIN_TEXT", "ARGON2", "SHA256"}
  BY DEF PasswordMethod
<1>2. CASE PasswordMethod(args) = "PLAIN_TEXT"
  <2>1. Value(args, "password", NoWord) = password /\ result.cookie = Argon2(password)
    BY <1>2 DEF HandlePasswordValidation
  <2>2. Value(args, "password", "") = password
    BY <2>1 DEF Value
  <2>3. IsHashMatch(password, Argon2(password))
    BY DEF IsHashMatch, Argon2
  <2> QED
    BY <1>2, <2>1, <2>2, <2>3 DEF IsCookieValid
<1>3. CASE PasswordMethod(args) # "PLAIN_TEXT"
  <2>1. result.cookie = hashed /\ hashed.of = password
    BY <1>1, <1>3 DEF HandlePasswordValidation, IsHashMatch
  <2>2. NoHash.of = NoWord
    BY DEF NoHash
  <2> HIDE DEF hashed
  <2>3. hashed # NoHash
    BY <2>1, <2>2
  <2> QED
    BY <1>3, <2>1, <2>3 DEF IsCookieValid, hashed
<1> QED
  BY <1>2, <1>3

\* Of the cookies that come to a host, the others are of domains above it.
LEMMA OthersShadow ==
  ASSUME JarIsOwn, NEW host \in Host, NEW i \in DOMAIN jar,
         Applies(jar[i], host), ~IsOwn(jar[i], host)
  PROVE  Shadowed(host)
<1>1. PICK S : jar \in Seq(S) /\ \A cookie \in S : \E h \in Host : IsOwn(cookie, h)
  BY DEF JarIsOwn
<1>2. PICK owner \in Host : IsOwn(jar[i], owner)
  BY <1>1
<1>3. jar[i].name # host.name
  BY <1>2 DEF IsOwn
<1> QED
  BY <1>3 DEF Applies, Shadowed

\* A host at which the browser has logged out keeps it out until it logs in
\* there again, for any proxy domains and passwords and whatever server
\* follows, unless a cookie of a domain above that host lets it in.
THEOREM LogoutsLockOut == Spec => []LogoutLocksOut
<1>1. JInv => LogoutLocksOut
  <2> SUFFICES ASSUME JInv, args["auth"] = "password", NEW host \in out, In(host)
               PROVE  Shadowed(host)
    BY DEF LogoutLocksOut
  <2>1. IsCookieValid(args, CookieFor(jar, host))
    BY DEF In, Authenticated, Request
  <2>2. \E i \in DOMAIN jar : Applies(jar[i], host)
    BY <2>1, NoHashIsInvalid DEF CookieFor
  <2> QED
    BY <2>2, OthersShadow DEF JInv, OutIsClear
<1> QED
  BY <1>1, InitIInv, NextIInv, InitJInv, NextJInv, PTL DEF Spec

\* Whoever gives the right password at a host is in there afterwards, for any
\* proxy domains: the cookie comes back and is recognised, unless one of a
\* domain above that host hides it.
THEOREM LoginsLetIn == Spec => LoginLetsIn
<1> DEFINE Lets(s, host) ==
             /\ LoginEnds(s) /\ attempts[s].host = host
             /\ HandlePasswordValidation(args, attempts[s].password).valid
             /\ ~Shadowed(host)
             => In(host)'
<1>1. IInv /\ EInv /\ JInv /\ [Next]_vars => [\A s \in Slot, host \in Host : Lets(s, host)]_vars
  <2> SUFFICES ASSUME IInv, EInv, JInv, NEW s \in Slot, NEW host \in Host,
                      LoginEnds(s), attempts[s].host = host,
                      HandlePasswordValidation(args, attempts[s].password).valid,
                      ~Shadowed(host)
               PROVE  In(host)'
    OBVIOUS
  <2> DEFINE password == attempts[s].password
             value == HandlePasswordValidation(args, password).cookie
             sent == {i \in DOMAIN jar' : Applies(jar'[i], host)}
  <2>1. /\ phase = "up" /\ args' = args /\ attempts[s] # NoAttempt
        /\ jar' = Stored(host, value) /\ out' = out \ {host}
    BY DEF LoginEnds
  <2>2. password \in Password /\ password # ""
    BY <2>1 DEF IInv, TypeOK, Attempt, EInv, NothingBlank
  <2>3. IsCookieValid(args, value)
    BY <2>2, PasswordsAssumption, RightCookieIsValid
  <2> HIDE DEF value
  <2>4. /\ \E i \in DOMAIN jar' : IsOwn(jar'[i], host)
        /\ \A i \in DOMAIN jar' :
             \/ IsOwn(jar'[i], host) /\ jar'[i].value = value
             \/ i \in DOMAIN jar /\ jar'[i] = jar[i] /\ ~IsOwn(jar'[i], host)
    BY <2>1, LoginKeepsJar
  <2>5. \A i \in sent : jar'[i].value = value
    BY <2>4, OthersShadow DEF JInv
  <2>6. sent # {} /\ sent \in SUBSET Nat
    <3>1. sent # {}
      <4>1. PICK i \in DOMAIN jar' : IsOwn(jar'[i], host)
        BY <2>4
      <4>2. host.name \in Seq(ToSet(host.name))
        BY HostsAssumption DEF IsSequence
      <4>3. Applies(jar'[i], host)
        BY <4>1, <4>2, SuffixOfItself DEF IsOwn, Applies
      <4> QED
        BY <4>1, <4>3
    <3>2. sent \in SUBSET Nat
      <4>1. JarIsOwn'
        BY <2>1, LoginKeepsJar
      <4>2. DOMAIN jar' \in SUBSET Nat
        BY <4>1 DEF JarIsOwn
      <4> QED
        BY <4>2
    <3> QED
      BY <3>1, <3>2
  <2>7. CookieFor(jar', host) = value
    <3>1. Min(sent) \in sent
      BY <2>6, MinIsLeast
    <3>2. CookieFor(jar', host) = jar'[Min(sent)].value
      BY <2>6 DEF CookieFor
    <3> QED
      BY <2>5, <3>1, <3>2
  <2>8. IsCookieValid(args', CookieFor(jar', host))
    BY <2>1, <2>3, <2>7
  <2> QED
    BY <2>8 DEF In, Authenticated, Request
<1> QED
  BY <1>1, InitIInv, NextIInv, InitEInv, NextEInv, InitJInv, NextJInv, PTL DEF Spec, LoginLetsIn
=============================================================================
