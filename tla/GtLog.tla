------------------------------- MODULE GtLog -------------------------------
(***************************************************************************)
(* user/core/gt_log.c: how gt_log_print puts a line together in a buffer   *)
(* of GT_LOG_BUF_MAX_LEN bytes: the time, the level, the message and a     *)
(* newline.  Text is modelled by its length; vsnprintf and snprintf return *)
(* the length they would have needed, and write what fits.                 *)
(***************************************************************************)
EXTENDS Integers

GT_LOG_BUF_MAX_LEN == 1024

TimeLen == 20               \* "%F %T "

g_log_level_str == [INFO |-> 4, WARN |-> 4, ERROR |-> 5, DEBUG |-> 5]

Levels == DOMAIN g_log_level_str

\* "[%s] "
LevelLen(level) == g_log_level_str[level] + 3

\* Where the message begins, and the size passed to vsnprintf for it.
Prefix(level) == TimeLen + LevelLen(level)
Room(level) == GT_LOG_BUF_MAX_LEN - Prefix(level) - 1

\* Mutant: a message that does not fit is treated as one that does.
MUT_Untruncated(level, len) == Prefix(level) + len

\* log_length: where the newline goes, len being what vsnprintf returned.
LogLength(level, len) == IF Room(level) > len THEN Prefix(level) + len
                                              ELSE Prefix(level) + len - 1

\* The size passed to snprintf for the newline and its NUL.  Below 0 it is a
\* size_t beyond all bounds, and both are written wherever log_length points.
EndRoom(level, len) == GT_LOG_BUF_MAX_LEN - LogLength(level, len) - 1

\* What write(2) gets: its length (ret_end_len is 1 whatever was written),
\* whether it stays in the buffer, as the newline does, and whether the line
\* has all of the message and ends in its newline.
Line(level, len) ==
    LET length == LogLength(level, len) + 1
        end == EndRoom(level, len)
    IN  [length |-> length,
         inside |-> length <= GT_LOG_BUF_MAX_LEN /\ end >= 0,
         whole |-> len < Room(level) /\ end >= 2]
=============================================================================
