------------------------------ MODULE Strings ------------------------------
(***************************************************************************)
(* kernel/lib/string.c.  Memory m is a function from addresses to bytes;   *)
(* the functions that write return the new memory.  Pointers returned are  *)
(* addresses, NULL is -1.  Strings are terminated inside m, and strcpy,    *)
(* strncpy and strcat are given areas that do not overlap, which is C's    *)
(* contract for them.                                                      *)
(***************************************************************************)
EXTENDS Integers, Sequences, FiniteSetsExt

NULL == -1
NUL  == 0
SLASH == 47

Area(a, n) == a .. a + n - 1

memset(m, dest, val, count) ==
    [a \in DOMAIN m |-> IF a \in Area(dest, count) THEN val ELSE m[a]]

(***************************************************************************)
(* A loop that copies count bytes one by one, from the first or from the   *)
(* last.                                                                   *)
(***************************************************************************)
CopyUp(m, dest, src, count) ==
    LET done[k \in 0 .. count] ==
            IF k = 0 THEN m
            ELSE [done[k - 1] EXCEPT ![dest + k - 1] = done[k - 1][src + k - 1]]
    IN  done[count]

CopyDown(m, dest, src, count) ==
    LET done[k \in 0 .. count] ==
            IF k = 0 THEN m
            ELSE [done[k - 1] EXCEPT ![dest + count - k] = done[k - 1][src + count - k]]
    IN  done[count]

memcpy(m, dest, src, count) == CopyUp(m, dest, src, count)

memmove(m, dest, src, count) ==
    IF dest < src THEN CopyUp(m, dest, src, count) ELSE CopyDown(m, dest, src, count)

memcmp(m, s1, s2, count) ==
    LET differ == {k \in 0 .. count - 1 : m[s1 + k] # m[s2 + k]}
    IN  IF differ = {} THEN 0 ELSE m[s1 + Min(differ)] - m[s2 + Min(differ)]

strlen(m, str) == Min({a \in DOMAIN m : a >= str /\ m[a] = NUL}) - str

(***************************************************************************)
(* Where the loops of strcmp and strncmp stop: at the end of a string, at  *)
(* a difference, or after n characters.                                    *)
(***************************************************************************)
Stop(m, s1, s2, n) ==
    Min({k \in 0 .. Min({strlen(m, s1), strlen(m, s2)}) :
            k = n \/ m[s1 + k] = NUL \/ m[s1 + k] # m[s2 + k]})

strcmp(m, s1, s2) ==
    LET k == Stop(m, s1, s2, -1)
    IN  m[s1 + k] - m[s2 + k]

(***************************************************************************)
(* Mutant of strncmp: the test n == 0 after the loop is missing.           *)
(***************************************************************************)
strncmp_untested(m, s1, s2, n) ==
    LET k == Stop(m, s1, s2, n)
    IN  m[s1 + k] - m[s2 + k]

strncmp(m, s1, s2, n) ==
    LET k == Stop(m, s1, s2, n)
    IN  IF k = n THEN 0 ELSE m[s1 + k] - m[s2 + k]

strcpy(m, dest, src) == CopyUp(m, dest, src, strlen(m, src) + 1)

(***************************************************************************)
(* Mutant of strncpy: while (n-- >= 0) in the second loop.                 *)
(***************************************************************************)
strncpy_overfull(m, dest, src, n) ==
    LET len == strlen(m, src)
    IN  IF n <= len THEN memset(CopyUp(m, dest, src, n), dest + n, NUL, 1)
        ELSE memset(CopyUp(m, dest, src, len + 1), dest + len + 1, NUL, n - len + 1)

(***************************************************************************)
(* strncpy.  The NUL that ends the first loop is not counted: the second   *)
(* loop starts behind it with all of the n - len bytes to fill.            *)
(***************************************************************************)
strncpy(m, dest, src, n) ==
    LET len == strlen(m, src)
    IN  IF n <= len THEN CopyUp(m, dest, src, n)
        ELSE memset(CopyUp(m, dest, src, len + 1), dest + len + 1, NUL, n - len)

strcat(m, dest, src) == strcpy(m, dest + strlen(m, dest), src)

strchr(m, str, c) ==
    LET len  == strlen(m, str)
        hits == {a \in Area(str, len) : m[a] = c}
    IN  IF hits # {} THEN Min(hits) ELSE IF c = NUL THEN str + len ELSE NULL

strrchr(m, str, c) ==
    LET len  == strlen(m, str)
        hits == {a \in Area(str, len) : m[a] = c}
    IN  IF c = NUL THEN str + len ELSE IF hits = {} THEN NULL ELSE Max(hits)

-----------------------------------------------------------------------------
(***************************************************************************)
(* The string at an address, without its NUL.                              *)
(***************************************************************************)
IsString(m, s) == \E a \in DOMAIN m : a >= s /\ m[a] = NUL
Text(m, s) == [k \in 1 .. strlen(m, s) |-> m[s + k - 1]]

(***************************************************************************)
(* Mutant of NextToken: an empty token ends the walk.                      *)
(***************************************************************************)
NextTokenStrict(at) ==
    LET next_sep == strchr(at.m, at.token, SLASH)
        cut == IF next_sep = NULL THEN at.m ELSE [at.m EXCEPT ![next_sep] = NUL]
    IN  IF at.token = NULL \/ strlen(cut, at.token) = 0 THEN at
        ELSE [m |-> cut, token |-> IF next_sep = NULL THEN NULL ELSE next_sep + 1,
              names |-> Append(at.names, Text(cut, at.token))]

(***************************************************************************)
(* One round of the loop of vfs_resolve_path over its copy of the path:    *)
(* the copy, the token, NULL after the break, and the names passed to      *)
(* vfs_finddir, as long as each is found.                                  *)
(***************************************************************************)
NextToken(at) ==
    LET next_sep == strchr(at.m, at.token, SLASH)
        cut == IF next_sep = NULL THEN at.m ELSE [at.m EXCEPT ![next_sep] = NUL]
    IN  IF at.token = NULL \/ at.m[at.token] = NUL THEN at
        ELSE [m |-> cut, token |-> IF next_sep = NULL THEN NULL ELSE next_sep + 1,
              names |-> IF strlen(cut, at.token) > 0
                        THEN Append(at.names, Text(cut, at.token))
                        ELSE at.names]

(***************************************************************************)
(* The loop.  A round that does not end it moves the token on, so that it  *)
(* has ended after as many rounds as the path has characters.              *)
(***************************************************************************)
PathNames(m, pathbuf) ==
    LET after[k \in 0 .. strlen(m, pathbuf)] ==
            IF k = 0
            THEN [m |-> m, names |-> <<>>,
                  token |-> IF m[pathbuf] = SLASH THEN pathbuf + 1 ELSE pathbuf]
            ELSE NextToken(after[k - 1])
    IN  after[strlen(m, pathbuf)].names
=============================================================================
