SPECIFICATION SlidersSpec
INVARIANTS
    SlidersSorted
    StateAsShown
