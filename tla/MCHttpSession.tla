--------------------------- MODULE MCHttpSession ----------------------------
(* Answers of a server: with a length, in chunks, up to the end of the     *)
(* connection, an error page without a length, a continuation.             *)
EXTENDS HttpSession

T(k, n) == [k |-> k, n |-> n]
Body(n) == [i \in 1..n |-> T("data", i)]
Top(code) == <<T("status", code), T("field", 0)>>
Blank == <<T("blank", 0)>>

Sized(n) == <<T("status", 200), T("length", n), T("field", 0)>> \o Blank
            \o Body(n)
ToTheEnd(code, n) == Top(code) \o Blank \o Body(n)
\* The second chunk is set off by one more empty line.
Chunks == Top(200) \o <<T("chunked", 0)>> \o Blank
          \o <<T("size", 2), T("data", 1), T("data", 2)>> \o Blank \o Blank
          \o <<T("size", 1), T("data", 3)>> \o Blank
          \o <<T("size", 0)>> \o Blank
Continue == <<T("status", 100)>> \o Blank \o Sized(1)

MCResponses == {Sized(0), Sized(2), ToTheEnd(200, 2),
                ToTheEnd(404, 2), Chunks, Continue}
=============================================================================
