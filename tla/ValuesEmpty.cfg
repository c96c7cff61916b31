\* The comment of the ids on empty texts, against what their Scan does.
SPECIFICATION ValuesSpec
CONSTANTS
    Vars = {x, y}
    Nobody = Nobody
INVARIANT
    EmptyIdIsNull
SYMMETRY Symmetry
