---------------------------- MODULE MCLessonScripts ----------------------------
(* A small instance of LessonScripts.                                       *)
EXTENDS LessonScripts

\* 191 and 251 are 10111111 and 11111011: characters that lie in two of them
\* are 62 and 63 among others, which base64 and base64url write differently.
MCPayloads == {<<a, b, c, b, a>> : a, b, c \in {191, 251}}

=============================================================================
