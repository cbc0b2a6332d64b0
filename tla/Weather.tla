------------------------------ MODULE Weather -------------------------------
(***************************************************************************)
(* The screens of weather/weatherSearch.dart and weather/weatherHome.dart: *)
(* a field for a city pushes a page that asks for its weather, whose       *)
(* button pushes another search page.                                      *)
(*                                                                         *)
(* getWeather is called by build, so each build of a weather page starts a *)
(* request; its FutureBuilder follows the newest and keeps what it showed  *)
(* until that one is answered.                                             *)
(***************************************************************************)
EXTENDS Naturals, Sequences, SequencesExt

CONSTANTS
  City,      \* what can be typed and the service knows
  MaxPages   \* bound: pages on the navigator

VARIABLES
  pages,   \* the navigator's pages, the top one last
  framed   \* how many of them the last frame built

vars == <<pages, framed>>

\* text: of the search field; city: the weather page's; snapshot: what its
\* FutureBuilder has; dirty: the next frame builds it.
Page == [kind : {"search", "weather"}, text : City \cup {""}, city : City \cup {""},
         snapshot : {"nothing", "weather", "error"}, waiting : BOOLEAN, dirty : BOOLEAN]

WeatherSearch ==
  [kind |-> "search", text |-> "", city |-> "", snapshot |-> "nothing",
   waiting |-> FALSE, dirty |-> TRUE]
WeatherHome(city) == [WeatherSearch EXCEPT !.kind = "weather", !.city = city]

\* Taps go to the page that was on top when the last frame was built.
Top == pages[framed]

Quiet == \A i \in 1 .. Len(pages) : ~pages[i].waiting /\ ~pages[i].dirty

-----------------------------------------------------------------------------
Init == pages = <<WeatherSearch>> /\ framed = 1

Type ==
  \E city \in City :
    /\ framed <= Len(pages) /\ Top.kind = "search" /\ Top.text = ""
    /\ pages' = [pages EXCEPT ![framed].text = city]
    /\ UNCHANGED framed

\* _clearFields: setState(() { _searchController.clear(); })
ClearFields(page) == [page EXCEPT !.text = "", !.dirty = TRUE]

\* "Get Weather": moveToNextScreen(text), then _clearFields().  A second tap
\* before the next frame pushes a page for no city.
GetWeather ==
  /\ framed <= Len(pages) /\ Top.kind = "search" /\ Len(pages) < MaxPages
  /\ pages' = Append([pages EXCEPT ![framed] = ClearFields(@)], WeatherHome(Top.text))
  /\ UNCHANGED framed

\* The weather page's button.
moveToNextScreen ==
  /\ framed <= Len(pages) /\ Top.kind = "weather" /\ Len(pages) < MaxPages
  /\ pages' = Append(pages, WeatherSearch)
  /\ UNCHANGED framed

\* The app bar's arrow pops what is on top by then, but never the first page.
\* The page that is left is disposed, and its FutureBuilder with it.
Back ==
  /\ Len(pages) > 1
  /\ pages' = Front(pages)
  /\ UNCHANGED framed

\* The keyboard or a rotation changes the metrics: every route is built again.
Metrics ==
  /\ \E i \in 1 .. Len(pages) : ~pages[i].dirty
  /\ pages' = [i \in 1 .. Len(pages) |-> [pages[i] EXCEPT !.dirty = TRUE]]
  /\ UNCHANGED framed

\* build: a weather page calls getWeather(city), and its FutureBuilder leaves
\* the older future for the new one.
Built(page) ==
  IF page.dirty
    THEN [page EXCEPT !.dirty = FALSE, !.waiting = (page.kind = "weather")]
    ELSE page

Frame ==
  /\ framed # Len(pages) \/ \E i \in 1 .. Len(pages) : pages[i].dirty
  /\ framed' = Len(pages)
  /\ pages' = [i \in 1 .. Len(pages) |-> Built(pages[i])]

\* Mutant: the setState that is commented out in getWeather.
Answered_SetState(page, answer) ==
  [page EXCEPT !.snapshot = answer, !.waiting = FALSE, !.dirty = TRUE]

\* getWeather's future completes: the FutureBuilder alone is built again.
Answered(page, answer) == [page EXCEPT !.snapshot = answer, !.waiting = FALSE]

\* No service knows the city of an empty text; any request may fail.
Answer ==
  \E i \in 1 .. Len(pages), answer \in {"weather", "error"} :
    /\ pages[i].waiting
    /\ answer = "weather" => pages[i].city # ""
    /\ pages' = [pages EXCEPT ![i] = Answered(@, answer)]
    /\ UNCHANGED framed

User    == Type \/ GetWeather \/ moveToNextScreen \/ Back
Rebuild == GetWeather \/ moveToNextScreen \/ Metrics
Next    == User \/ Metrics \/ Frame \/ Answer

Spec == Init /\ [][Next]_vars /\ WF_vars(Frame) /\ WF_vars(Answer)

-----------------------------------------------------------------------------
\* Types: a weather page that waits has been built, a search page never waits.
TypeOK ==
  /\ Len(pages) \in 1 .. MaxPages /\ framed \in 1 .. MaxPages
  /\ \A i \in 1 .. Len(pages) :
       pages[i] \in Page /\ (pages[i].waiting => pages[i].kind = "weather")

\* weatherHome.dart's note on the "infinite loop": the pages ask again and
\* again only if taps or metrics build them again and again; an answer by
\* itself never leads to a request.
RequestsStop == []<>~Quiet => []<><<Rebuild>>_vars
=============================================================================
