\* Three requests for two pages, and one edit of the files.
CONSTANTS
    r1 = r1
    r2 = r2
    r3 = r3
    p1 = p1
    p2 = p2
    Request = {r1, r2, r3}
    Page = {p1, p2}
    Nobody = Nobody
    MaxEdits = 1
SPECIFICATION FairPageSpec
INVARIANTS
    PageTypeOK
    PageParsedOnce
    AnswersFit
PROPERTIES
    RendersReturn
