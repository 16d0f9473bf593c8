---------------------------------- MODULE Http ----------------------------------
(***************************************************************************)
(* The enumerations of the http namespace and what their conversions know. *)
(* An enumerator is named by its text or its number.                       *)
(***************************************************************************)
EXTENDS Naturals

\* stringToMethod: it throws on the rest.
KnownMethods == {"GET", "HEAD", "POST", "PUT", "DELETE", "CONNECT", "OPTIONS",
                 "TRACE", "PATCH"}

\* stringToVersion: it throws on the rest.
KnownVersions == {"HTTP/0.9", "HTTP/1.0", "HTTP/1.1", "HTTP/2.0", "HTTP/3.0"}

\* The enumerators of StatusCode ...
StatusCodes ==
  100 .. 103 \cup 200 .. 208 \cup {226} \cup 300 .. 308 \cup 400 .. 418
    \cup 421 .. 426 \cup {428, 429, 431, 451} \cup 500 .. 508 \cup {510, 511}

\* ... each of which statusCodeToString has a text for; it throws on a number
\* that was cast to StatusCode and is none of them.
HasText(code) == code \in StatusCodes
================================================================================
