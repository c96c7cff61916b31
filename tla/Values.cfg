\* Two variables, all pairs of types of one family.
SPECIFICATION ValuesSpec
CONSTANTS
    Vars = {x, y}
    Nobody = Nobody
INVARIANTS
    StoredComesBack
    SentComesBack

    
    
SYMMETRY Symmetry
VIEW ButLast
