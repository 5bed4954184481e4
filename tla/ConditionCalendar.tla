-------------------------- MODULE ConditionCalendar --------------------------
(***************************************************************************)
(* When a conditional restriction is active: the parser of the text in     *)
(* parentheses and the test against a day and a minute.  The text is its   *)
(* sequence of tokens: days 0 to 6 from Monday, times in minutes, dashes,  *)
(* commas, semicolons, and words the parser does not know.                 *)
(***************************************************************************)
EXTENDS Integers, Sequences

Day(d) == [kind |-> "day", n |-> d]
Time(m) == [kind |-> "time", n |-> m]
Dash == [kind |-> "dash", n |-> 0]
Comma == [kind |-> "comma", n |-> 0]
Semicolon == [kind |-> "semicolon", n |-> 0]
Word == [kind |-> "word", n |-> 0]

Days == 0 .. 6
AllWeek == <<[days |-> Days, start |-> 0, end |-> 1440]>>

IsA(s, p, kind) == p <= Len(s) /\ s[p].kind = kind

\* A comma-separated list, where item[q] is the member that begins at q, if one
\* does; a comma that no member follows is left where it is.
ListFrom(s, p, item) ==
  LET first == item[p]
      more[q \in 1 .. Len(s) + 1] ==
        IF IsA(s, q, "comma") /\ item[q + 1].ok
        THEN LET i == item[q + 1] IN [values |-> <<i.value>> \o more[i.at].values, at |-> more[i.at].at]
        ELSE [values |-> <<>>, at |-> q]
  IN  IF first.ok
      THEN [ok |-> TRUE, values |-> <<first.value>> \o more[first.at].values, at |-> more[first.at].at]
      ELSE [ok |-> FALSE, values |-> <<>>, at |-> first.at]

\* The loop over a range of days steps until it meets the day after the last.
CircularDaysUpTo(first, last) == {(first + k) % 7 : k \in 0 .. ((last - first) % 7) - 1}
CircularDays(first, last) == {(first + k) % 7 : k \in 0 .. ((last + 1 - first) % 7) - 1}

DayItem(s, p) ==
  CASE IsA(s, p, "day") /\ IsA(s, p + 1, "dash") /\ IsA(s, p + 2, "day") ->
         [ok |-> TRUE, value |-> CircularDays(s[p].n, s[p + 2].n), at |-> p + 3]
    [] IsA(s, p, "day") /\ ~IsA(s, p + 1, "dash") -> [ok |-> TRUE, value |-> {s[p].n}, at |-> p + 1]
    [] OTHER -> [ok |-> FALSE, value |-> {}, at |-> p]

TimeItem(s, p) ==
  CASE IsA(s, p, "time") /\ IsA(s, p + 1, "dash") /\ IsA(s, p + 2, "time") ->
         [ok |-> TRUE, value |-> <<s[p].n, s[p + 2].n>>, at |-> p + 3]
    [] ~IsA(s, p, "time") -> [ok |-> FALSE, value |-> <<>>, at |-> p]
    [] IsA(s, p, "time") /\ ~IsA(s, p + 1, "dash") -> [ok |-> FALSE, value |-> <<>>, at |-> p + 1]
    [] OTHER -> [ok |-> FALSE, value |-> <<>>, at |-> p + 2]

TimesOn(days, s, p) ==
  LET times == ListFrom(s, p, [q \in 1 .. Len(s) + 1 |-> TimeItem(s, q)])
  IN  [ok |-> times.ok, at |-> times.at,
       windows |-> [i \in DOMAIN times.values |-> [days |-> days, start |-> times.values[i][1], end |-> times.values[i][2]]]]

Block(s, p) ==
  LET list == ListFrom(s, p, [q \in 1 .. Len(s) + 1 |-> DayItem(s, q)])
      days == UNION {list.values[i] : i \in DOMAIN list.values}
  IN  CASE days # {} /\ IsA(s, list.at, "time") -> TimesOn(days, s, list.at)
        [] days # {} /\ ~IsA(s, list.at, "time") ->
             [ok |-> TRUE, at |-> list.at, windows |-> <<[days |-> days, start |-> 0, end |-> 1440]>>]
        [] days = {} /\ IsA(s, p, "time") -> TimesOn(Days, s, p)
        [] OTHER -> [ok |-> FALSE, at |-> p, windows |-> <<>>]

\* A block that fails ends the condition, unless it fails at a semicolon.
ParsedWindows(s) ==
  LET from[p \in 1 .. Len(s) + 1] ==
        IF p > Len(s) THEN <<>>
        ELSE LET b == Block(s, p)
             IN  b.windows \o (IF IsA(s, b.at, "semicolon") THEN from[b.at + 1]
                               ELSE IF b.ok THEN from[b.at] ELSE <<>>)
  IN  from[1]

\* No condition, or one that cannot be parsed, is always active.
WindowsOf(s) == IF s = <<>> \/ ParsedWindows(s) = <<>> THEN AllWeek ELSE ParsedWindows(s)

IsTimeWindowActive(windows, day, minute) ==
  \E i \in DOMAIN windows :
    LET w == windows[i] IN
    /\ day \in w.days
    /\ CASE w.end > w.start -> w.start <= minute /\ minute < w.end
         [] w.end < w.start -> w.start <= minute \/ minute < w.end
         [] OTHER -> TRUE
=============================================================================
