SPECIFICATION ShellSpec
CONSTANTS
    NumAtoms = 2
    Coordination = 3
    NoSymmetry = NoSymmetry
    Overlap = Overlap
    NoDirection = Overlap
    Ideal = Ideal
    Given = Given
    Zero = Zero
    Symmetries <- MCSymmetries
    Fit <- MCFit
    AtomInputs <- MCAtomInputs
INVARIANTS
    ShellsCanonical
